---- MODULE Spec2Model ----
(***************************************************************************)
(* A model of the SSCPv2 host library (springcard/sscp-host): the session  *)
(* context, SSCP_Authenticate, the framed codec SSCP_ExchangeRaw and the   *)
(* secure exchanger SSCP_ExchangeEx with its retry loop and its response   *)
(* validation.                                                             *)
(*                                                                         *)
(* A DWORD is kept at its full 32-bit width as a pair <<hi, lo>> of 16-bit *)
(* halves, so that the wrap of ctx->counter at 0xFFFFFFFF is the code's.   *)
(* The crypto primitives and the serial driver are external: a primitive   *)
(* either fails or succeeds, a signature either compares equal or not, and *)
(* each serial call returns one of the driver's result codes.              *)
(***************************************************************************)
EXTENDS Integers, Sequences, FiniteSets, TLC

(* ------------------------------------------------------------------ *)
(* Error codes (inc/sscp-errors.h)                                     *)
(* ------------------------------------------------------------------ *)
SSCP_SUCCESS == 0
SSCP_ERR_OUTPUT_BUFFER_OVERFLOW == -4
SSCP_ERR_COMMAND_TOO_LONG == -5
SSCP_ERR_RESPONSE_TOO_LONG == -6
SSCP_ERR_INTERNAL_FAILURE == -8
SSCP_ERR_OUT_OF_MEMORY == -9
SSCP_ERR_COMM_NOT_OPEN == -11
SSCP_ERR_COMM_CONTROL_FAILED == -12
SSCP_ERR_COMM_SEND_FAILED == -13
SSCP_ERR_COMM_RECV_FAILED == -17
SSCP_ERR_COMM_RECV_STOPPED == -18
SSCP_ERR_COMM_RECV_MUTE == -19
SSCP_ERR_WRONG_RESPONSE_LENGTH == -20
SSCP_ERR_WRONG_RESPONSE_CRC == -21
SSCP_ERR_WRONG_RESPONSE_SIGNATURE == -22
SSCP_ERR_WRONG_RESPONSE_COUNTER == -23
SSCP_ERR_WRONG_RESPONSE_TYPE == -24
SSCP_ERR_WRONG_RESPONSE_COMMAND == -25
SSCP_ERR_WRONG_RESPONSE_FORMAT == -26
SSCP_ERR_UNSUPPORTED_RESPONSE_STATUS == -30
SSCP_ERR_UNSUPPORTED_RESPONSE_LENGTH == -32
SSCP_ERR_NFC_CARD_MUTE_OR_REMOVED == -41
SSCP_ERR_NFC_CARD_COMM_ERROR == -42

SSCP_PROTOCOL_AUTHENTICATE == 32
SSCP_PROTOCOL_SECURE == 33

SSCP_CMD_SCAN_A_RAW == 15
SSCP_CMD_TRANSCEIVE_APDU == 95
SSCP_CMD_SCAN_GLOBAL == 176

(* ------------------------------------------------------------------ *)
(* Bounds of the model                                                 *)
(* ------------------------------------------------------------------ *)
\* Number of framed attempts of the retry loop of SSCP_ExchangeEx.  The
\* macro is set in a header that is not part of the sources at hand; the
\* loop is modelled for this value and for the next one.
SSCP_MAX_TIMEOUT_RETRY == 3
\* SSCP_Exchange calls in one run.
MaxExchanges == 2
\* Successful SSCP_Authenticate calls in one run.
MaxSessions == 2

(* ------------------------------------------------------------------ *)
(* 32-bit unsigned arithmetic on <<hi, lo>>                            *)
(* ------------------------------------------------------------------ *)
Half == 65536

DW(hi, lo) == <<hi, lo>>

DWGt(a, b) == \/ a[1] > b[1]
              \/ a[1] = b[1] /\ a[2] > b[2]

\* a + 1 on a DWORD: wraps from 0xFFFFFFFF to 0.
DWInc(a) == IF a[2] + 1 < Half THEN <<a[1], a[2] + 1>>
            ELSE <<(a[1] + 1) % Half, 0>>

\* A natural below 2^31 as a DWORD, and a small DWORD as a natural.
ToDW(n) == <<n \div Half, n % Half>>
DWNat(a) == a[1] * Half + a[2]

DWAdd(a, b) ==
    LET lo == a[2] + b[2]
    IN  <<(a[1] + b[1] + (lo \div Half)) % Half, lo % Half>>

\* 0 - a, as the conversion of a negative value to unsigned gives it.
DWNeg(a) == DWAdd(<<(Half - 1) - a[1], (Half - 1) - a[2]>>, <<0, 1>>)

\* The conversion of a signed value to unsigned.
DWOfInt(n) == IF n >= 0 THEN ToDW(n) ELSE DWNeg(ToDW(0 - n))

\* x * y in full, for x and y below 2^16, one byte of y at a time.
Mul16(x, y) ==
    LET p1 == x * (y \div 256)
        p0 == x * (y % 256)
        lo == ((p1 % 256) * 256) + (p0 % Half)
        hi == (p1 \div 256) + (p0 \div Half) + (lo \div Half)
    IN  <<hi % Half, lo % Half>>

\* a * b on DWORDs: the low 32 bits.
DWMul(a, b) ==
    LET ll == Mul16(a[2], b[2])
        cross == Mul16(a[1], b[2])[2] + Mul16(a[2], b[1])[2]
    IN  <<(ll[1] + cross) % Half, ll[2]>>

\* The four big-endian bytes of a DWORD (command[0..3]).
CounterBytes(c) == <<c[1] \div 256, c[1] % 256, c[2] \div 256, c[2] % 256>>

\* t = response[0]; t <<= 8; t |= response[1]; ...
ParseCounter(b) == <<b[1] * 256 + b[2], b[3] * 256 + b[4]>>

(* ------------------------------------------------------------------ *)
(* The serial port as SSCP_ExchangeRaw sees it                         *)
(* ------------------------------------------------------------------ *)
\* What the driver answers to the calls of one SSCP_ExchangeRaw, in call
\* order: st1 (first SSCP_SerialSetTimeouts), snd (the three
\* SSCP_SerialSend), hdr (SSCP_SerialRecv of the 5 header bytes), sof and
\* len (header[0] and the LEN field received), st2 (second
\* SSCP_SerialSetTimeouts), pl (SSCP_SerialRecv of the payload), crc
\* (SSCP_SerialRecv of the 2 CRC bytes), crcok (the received CRC equals
\* the recomputed one).
IoOk(len) ==
    [st1 |-> SSCP_SUCCESS, snd |-> <<SSCP_SUCCESS, SSCP_SUCCESS, SSCP_SUCCESS>>,
     hdr |-> SSCP_SUCCESS, sof |-> 2, len |-> len, st2 |-> SSCP_SUCCESS,
     pl |-> SSCP_SUCCESS, crc |-> SSCP_SUCCESS, crcok |-> TRUE]

\* Payload lengths a response header declares.
RespSizes == {15, 40, 64, 80}
TooLongSize == 5000

RecvErrors == {SSCP_ERR_COMM_RECV_MUTE, SSCP_ERR_COMM_RECV_STOPPED,
               SSCP_ERR_COMM_RECV_FAILED}

\* A closed port: the first driver call that needs the handle fails.
IoClosed ==
    {[IoOk(16) EXCEPT !.st1 = SSCP_ERR_COMM_NOT_OPEN],
     [IoOk(16) EXCEPT !.snd = <<SSCP_ERR_COMM_NOT_OPEN, SSCP_SUCCESS, SSCP_SUCCESS>>]}

\* An open port: every place where one exchange can go wrong.
IoFailing ==
    {[IoOk(16) EXCEPT !.st1 = SSCP_ERR_COMM_CONTROL_FAILED]}
    \cup {[IoOk(16) EXCEPT !.snd[i] = SSCP_ERR_COMM_SEND_FAILED] : i \in 1..3}
    \cup {[IoOk(16) EXCEPT !.hdr = e] : e \in RecvErrors}
    \cup {[IoOk(16) EXCEPT !.sof = 0]}
    \cup {[IoOk(16) EXCEPT !.len = TooLongSize]}
    \cup {[IoOk(16) EXCEPT !.st2 = SSCP_ERR_COMM_CONTROL_FAILED]}
    \cup {[IoOk(16) EXCEPT !.pl = e] : e \in RecvErrors}
    \cup {[IoOk(16) EXCEPT !.crc = e] : e \in RecvErrors}
    \cup {[IoOk(16) EXCEPT !.crcok = FALSE]}

IoOpen == IoFailing \cup {IoOk(n) : n \in RespSizes}

\* A few of them: the frame answered, no answer at all, a failed write.
IoSome(open) ==
    IF open
    THEN {IoOk(15), IoOk(64), IoOk(80),
          [IoOk(16) EXCEPT !.hdr = SSCP_ERR_COMM_RECV_MUTE],
          [IoOk(16) EXCEPT !.snd[1] = SSCP_ERR_COMM_SEND_FAILED]}
    ELSE IoClosed

(* ------------------------------------------------------------------ *)
(* SSCP_ExchangeRaw                                                    *)
(* ------------------------------------------------------------------ *)
\* The two timeouts of the port, by name.
SSCP_RESPONSE_FIRST_TIMEOUT == "FIRST_TIMEOUT"
SSCP_RESPONSE_NEXT_TIMEOUT == "NEXT_TIMEOUT"

\* One call to the driver and what it returned.
PortCall(fn, arg, rc) == [fn |-> fn, arg |-> arg, rc |-> rc]

\* A codec that reads the whole frame under the timeouts set at first.
PortCallsOnePhase(io) ==
    <<PortCall("SetTimeouts", <<SSCP_RESPONSE_FIRST_TIMEOUT, SSCP_RESPONSE_NEXT_TIMEOUT>>, io.st1),
      PortCall("Send", "header", io.snd[1]),
      PortCall("Send", "command", io.snd[2]),
      PortCall("Send", "crcA", io.snd[3]),
      PortCall("Recv", "header", io.hdr),
      PortCall("SetTimeouts", <<SSCP_RESPONSE_FIRST_TIMEOUT, SSCP_RESPONSE_NEXT_TIMEOUT>>, io.st2),
      PortCall("Recv", "response", io.pl),
      PortCall("Recv", "crcB", io.crc)>>

\* The driver calls of SSCP_ExchangeRaw in the order of its text, each
\* with what the driver returns to it.
PortCalls(io) ==
    <<PortCall("SetTimeouts", <<SSCP_RESPONSE_FIRST_TIMEOUT, SSCP_RESPONSE_NEXT_TIMEOUT>>, io.st1),
      PortCall("Send", "header", io.snd[1]),
      PortCall("Send", "command", io.snd[2]),
      PortCall("Send", "crcA", io.snd[3]),
      PortCall("Recv", "header", io.hdr),
      PortCall("SetTimeouts", <<SSCP_RESPONSE_NEXT_TIMEOUT, SSCP_RESPONSE_NEXT_TIMEOUT>>, io.st2),
      PortCall("Recv", "response", io.pl),
      PortCall("Recv", "crcB", io.crc)>>

\* The result of one call: rc, the number of SSCP_SerialSend calls that
\* succeeded (3: the whole frame is on the wire), the frame written,
\* respSz, the value stored through actResponseSz (-1: not written), and
\* ports, the driver calls made before the return.
RawResult(rc, sent, address, protocol, command, respSz, ports) ==
    [rc |-> rc, sent |-> sent, respSz |-> respSz, ports |-> ports,
     frame |-> [addr |-> address, proto |-> protocol, payload |-> command]]

\* A codec that hands on what the read returned.
KeepMute(rc) == rc

\* MUTE becomes STOPPED once the header is in hand.
UpgradeMute(rc) ==
    IF rc = SSCP_ERR_COMM_RECV_MUTE THEN SSCP_ERR_COMM_RECV_STOPPED ELSE rc

\* BYTE response[256] in SSCP_Authenticate, passed as sizeof(response)
AuthResponseSz == 256

\* const DWORD maxResponseSz = 4096 in SSCP_ExchangeEx
ExchangeEx_maxResponseSz == 4096

\* A codec that lets any 16-bit length through.
CommandFits16(commandSz) == commandSz > 65535

\* if (commandSz > 4096)
CommandTooLong(commandSz) == commandSz > 4096

\* if (length > maxResponseSz): payload will not fit
ResponseTooLong(length, maxResponseSz) == length > maxResponseSz

\* A codec that wants the address and the protocol of the request back.
HeaderOfRequest(io, addr, proto) ==
    io.sof # 2 \/ io.addr # addr \/ io.proto # proto

\* if (header[0] != 0x02): header[3] and header[4] are not looked at.
HeaderBad(io, addr, proto) == io.sof # 2

\* A codec that reads the payload and the CRC before it looks at the
\* header it has read.
CallsWithFrameRead(io) ==
    SubSeq(PortCalls(io), 1, 5) \o SubSeq(PortCalls(io), 7, 8)

\* The driver calls made when header[0] and the length are tested: up to
\* the SSCP_SerialRecv of the header.
CallsAtHeaderTests(io) == SubSeq(PortCalls(io), 1, 5)

\* The bytes the SSCP_SerialRecv calls among ports were made for: 5 for
\* the header, length for the payload, 2 for the CRC.
BytesAsked(ports, io) ==
    LET Made(arg) == \E i \in 1..Len(ports) : ports[i].fn = "Recv" /\ ports[i].arg = arg
    IN  (IF Made("header") THEN 5 ELSE 0) + (IF Made("response") THEN io.len ELSE 0)
        + (IF Made("crcB") THEN 2 ELSE 0)

\* What is left in the port of the bytes rx it delivered, after these
\* driver calls.
Unread(rx, ports, io) ==
    IF BytesAsked(ports, io) >= Len(rx) THEN <<>>
    ELSE SubSeq(rx, BytesAsked(ports, io) + 1, Len(rx))

SSCP_ExchangeRaw(address, protocol, command, commandSz, maxResponseSz, io) ==
    LET Result(rc, sent, sz, ports) ==
            RawResult(rc, sent, address, protocol, command, sz, ports)
        R(rc, sent, sz, made) == Result(rc, sent, sz, SubSeq(PortCalls(io), 1, made))
    IN
    IF CommandTooLong(commandSz) THEN R(SSCP_ERR_COMMAND_TOO_LONG, 0, -1, 0)
    ELSE IF io.st1 # SSCP_SUCCESS THEN R(io.st1, 0, -1, 1)
    ELSE IF io.snd[1] # SSCP_SUCCESS THEN R(io.snd[1], 0, -1, 2)
    ELSE IF io.snd[2] # SSCP_SUCCESS THEN R(io.snd[2], 1, -1, 3)
    ELSE IF io.snd[3] # SSCP_SUCCESS THEN R(io.snd[3], 2, -1, 4)
    ELSE IF io.hdr # SSCP_SUCCESS THEN R(io.hdr, 3, -1, 5)
    ELSE IF HeaderBad(io, address, protocol)
    THEN Result(SSCP_ERR_WRONG_RESPONSE_COMMAND, 3, -1, CallsAtHeaderTests(io))
    ELSE IF ResponseTooLong(io.len, maxResponseSz)
    THEN Result(SSCP_ERR_RESPONSE_TOO_LONG, 3, -1, CallsAtHeaderTests(io))
    ELSE IF io.st2 # SSCP_SUCCESS THEN R(io.st2, 3, -1, 6)
    ELSE IF io.pl # SSCP_SUCCESS THEN R(UpgradeMute(io.pl), 3, -1, 7)
    ELSE IF io.crc # SSCP_SUCCESS THEN R(UpgradeMute(io.crc), 3, -1, 8)
    ELSE IF ~io.crcok THEN R(SSCP_ERR_WRONG_RESPONSE_CRC, 3, -1, 8)
    ELSE R(SSCP_SUCCESS, 3, io.len, 8)

(* ------------------------------------------------------------------ *)
(* The frame, byte by byte                                             *)
(* ------------------------------------------------------------------ *)
RECURSIVE Xor(_, _)
\* a ^ b on naturals
Xor(a, b) ==
    IF a = 0 THEN b
    ELSE IF b = 0 THEN a
    ELSE 2 * Xor(a \div 2, b \div 2) + (((a % 2) + (b % 2)) % 2)

\* (short) n: the int n cut to sixteen bits, bit 15 the sign.  crc, dbyte
\* and mix are short, and every expression on them is computed in int.
ToShort(n) ==
    LET low == n % 65536 IN IF low >= 32768 THEN low - 65536 ELSE low

\* (short)(crc ^ v) for an int v of 0..65535: the upper bits of the
\* sign-extended crc are cut off again, the lower sixteen are xored.
ShortXor(crc, v) == ToShort(Xor(crc % 65536, v))

\* A test of mix that takes the short for a positive number.
MixPositive(crc) == ToShort((crc % 65536) - (crc % 32768)) > 0

\* mix = crc & 0x8000; if (mix): bit 15 of crc, which is its sign.
Mix(crc) == crc < 0

\* mix = crc & 0x8000; crc = (crc << 1); if (mix) crc = crc ^ 0x1021.
\* crc << 1 is twice crc as an int, then cut to a short.
CrcShift(crc) ==
    IF Mix(crc) THEN ShortXor(ToShort(crc * 2), 4129) ELSE ToShort(crc * 2)

\* crc ^= dbyte << 8, then the eight shifts.
CrcByte(crc, dbyte) ==
    CrcShift(CrcShift(CrcShift(CrcShift(CrcShift(CrcShift(CrcShift(CrcShift(
        ShortXor(crc, dbyte * 256)))))))))

RECURSIVE CrcRun(_, _, _, _)
\* The loop over bytes[i..last]; crc stays a short.
CrcRun(crc, bytes, i, last) ==
    IF crc > 32767 \/ i > last THEN crc
    ELSE CrcRun(CrcByte(crc, bytes[i]), bytes, i + 1, last)

RECURSIVE CrcFold(_, _, _)
\* The loop over one part from byte i on, taken sixteen bytes at a time.
CrcFold(crc, bytes, i) ==
    IF crc > 32767 \/ i > Len(bytes) THEN crc
    ELSE LET last == IF i + 15 < Len(bytes) THEN i + 15 ELSE Len(bytes)
         IN  CrcFold(CrcRun(crc, bytes, i, last), bytes, last + 1)

\* The two CRC bytes over part1 then part2, from short crc = 0xFFFF,
\* which is -1.  pcrc[0] = (BYTE)(crc >> 8): the shift keeps the sign and
\* the cast keeps the low eight bits; pcrc[1] = (BYTE)(crc).
SSCP_SCR16(part1, part2) ==
    LET crc == CrcFold(CrcFold(ToShort(65535), part1, 1), part2, 1)
    IN  <<(crc \div 256) % 256, crc % 256>>

\* A header that drops the high byte of the length.
LengthLowByteOnly(commandSz) == <<0, commandSz % 256>>

\* header[1] = (BYTE)(commandSz >> 8); header[2] = (BYTE)(commandSz)
LengthBytes(commandSz) == <<(commandSz \div 256) % 256, commandSz % 256>>

\* The bytes SSCP_ExchangeRaw writes: header, command, crcA.
FrameBytes(address, protocol, command) ==
    LET lac == LengthBytes(Len(command)) \o <<address, protocol>>
    IN  <<2>> \o lac \o command \o SSCP_SCR16(lac, command)

\* SSCP_SerialRecv of n bytes when the port has delivered rx and pos of
\* them are read: all of them, or no byte at all, or some and then none.
SSCP_SerialRecv(rx, pos, n) ==
    IF Len(rx) - pos >= n THEN SSCP_SUCCESS
    ELSE IF Len(rx) <= pos THEN SSCP_ERR_COMM_RECV_MUTE
    ELSE SSCP_ERR_COMM_RECV_STOPPED

\* A comparison of the first CRC byte alone.
CrcFirstByteDiffers(crcA, crcB) == crcA[1] # crcB[1]

\* memcmp(crcA, crcB, 2)
CrcDiffers(crcA, crcB) == crcA # crcB

\* length = header[1]; length <<= 8; length |= header[2]
DeclaredLength(rx) == IF Len(rx) >= 3 THEN rx[2] * 256 + rx[3] ELSE 0

\* What the calls of one SSCP_ExchangeRaw return when the writes succeed
\* and the port delivers the bytes rx, then nothing.
IoReceiving(rx) ==
    LET length == DeclaredLength(rx) IN
    [st1 |-> SSCP_SUCCESS, snd |-> <<SSCP_SUCCESS, SSCP_SUCCESS, SSCP_SUCCESS>>,
     hdr |-> SSCP_SerialRecv(rx, 0, 5),
     sof |-> IF Len(rx) >= 1 THEN rx[1] ELSE 0,
     len |-> length,
     addr |-> IF Len(rx) >= 4 THEN rx[4] ELSE 0,
     proto |-> IF Len(rx) >= 5 THEN rx[5] ELSE 0,
     st2 |-> SSCP_SUCCESS,
     pl |-> SSCP_SerialRecv(rx, 5, length),
     crc |-> SSCP_SerialRecv(rx, 5 + length, 2),
     crcok |-> /\ Len(rx) >= 7 + length
               /\ ~CrcDiffers(SSCP_SCR16(SubSeq(rx, 2, 5), SubSeq(rx, 6, 5 + length)),
                              SubSeq(rx, 6 + length, 7 + length))]

\* The bytes left in response[] by a call that succeeds.
ResponseBytes(rx) == SubSeq(rx, 6, 5 + DeclaredLength(rx))

(* ------------------------------------------------------------------ *)
(* State                                                               *)
(* ------------------------------------------------------------------ *)
VARIABLES
    commOpen,      \* the transport handle is valid (SSCP_Open .. SSCP_Close)
    address,       \* ctx->address
    counter,       \* ctx->counter, a DWORD
    sessionKeys,   \* ctx->sessionKeyCipherAB/BA, ctx->sessionKeySignAB/BA
    stats,         \* ctx->stats: sessionCount, errorCount, whenSession
    pc,            \* "idle", or "loop": inside the retry loop of SSCP_ExchangeEx
    call,          \* the arguments of the SSCP_ExchangeEx call in progress or last made
    command,       \* the transport payload built by SSCP_ExchangeEx
    retry,         \* the loop variable of the retry loop
    lastCall,      \* the entry point that returned last
    lastRc,        \* and the value it returned
    out,           \* what the call stored for its caller: actSz, copied
    preCounter,    \* history: ctx->counter when the last SSCP_ExchangeEx was entered
    attempts,      \* history: the SSCP_ExchangeRaw calls of that SSCP_ExchangeEx
    response,      \* history: the response it received, as deciphered
    checks,        \* history: the steps its validation went through, in order
    accepted,      \* history: the responses accepted with SSCP_SUCCESS in this session
    replayed,      \* history: the response received was in accepted
    nExchanges,    \* number of SSCP_ExchangeEx calls made
    selftest,      \* the global SSCP_SELFTEST
    handshake,     \* history: what SSCP_Authenticate, if called last, met, and the context before
    raw,           \* history: the last SSCP_ExchangeRaw called on its own: arguments, port, results
    guard,         \* ctx->guardRunning, guardStart, guardValue, and the monotonic clock
    wrapped,       \* the function that called SSCP_Exchange, its arguments and what it returned
    blocks         \* the command and response blocks of SSCP_ExchangeEx: in use or freed, and what they hold

vars == <<commOpen, address, counter, sessionKeys, stats, pc, call, command,
          retry, lastCall, lastRc, out, preCounter, attempts, response, checks,
          accepted, replayed, nExchanges, selftest, handshake, raw, guard, wrapped,
          blocks>>

(* ------------------------------------------------------------------ *)
(* Session keys                                                        *)
(* ------------------------------------------------------------------ *)
AuthKeys == {"default", "custom"}
RndValues == {1}

Key(name, K, rndA, rndB) == [name |-> name, K |-> K, rndA |-> rndA, rndB |-> rndB]

\* The context as allocated: all four keys are zero.
ZeroKeys ==
    [CipherAB |-> Key("zero", "none", 0, 0), CipherBA |-> Key("zero", "none", 0, 0),
     SignAB |-> Key("zero", "none", 0, 0), SignBA |-> Key("zero", "none", 0, 0)]

\* SSCP_ComputeSessionKeys: a fixed function of (K, RndA, RndB).
SSCP_ComputeSessionKeys(K, rndA, rndB) ==
    [CipherAB |-> Key("CipherAB", K, rndA, rndB), CipherBA |-> Key("CipherBA", K, rndA, rndB),
     SignAB |-> Key("SignAB", K, rndA, rndB), SignBA |-> Key("SignBA", K, rndA, rndB)]

(* ------------------------------------------------------------------ *)
(* Placeholders for what a call has not produced                       *)
(* ------------------------------------------------------------------ *)
NoCall == [type |-> 0, code |-> 0, dataSz |-> 0, hasBuf |-> FALSE, maxSz |-> 0,
           selftest |-> FALSE]
NoCommand == [ctr |-> <<0, 0, 0, 0>>, type |-> 0, code |-> 0, lenField |-> 0,
              signKey |-> Key("zero", "none", 0, 0), cipherKey |-> Key("zero", "none", 0, 0),
              iv |-> 0, sz |-> 0]
NoResponse == [sz |-> 0, ctr |-> <<0, 0, 0, 0>>, code |-> 0, T |-> 0, stype |-> 0,
               scode |-> 0, sigOk |-> FALSE, pad |-> <<>>, d0 |-> 0]
NoOut == [actSz |-> -1, copied |-> 0]
NoHandshake == [called |-> FALSE]
NoRaw == [called |-> FALSE]
\* No guard armed, the clock at its origin.
NoGuard == [running |-> FALSE, start |-> <<0, 0>>, value |-> 0, now |-> <<0, 0>>,
            scans |-> 0, waited |-> FALSE, armed |-> <<0, 0>>, due |-> 0, sent |-> <<0, 0>>]
\* SSCP_Exchange called by the application itself.
NoWrapped == [name |-> "none"]
\* No SSCP_ExchangeEx has allocated its blocks.
NoBlocks == [state |-> "none", command |-> "none", response |-> "none"]

\* The context as SSCP_Alloc returns it.
ContextAllocated ==
    /\ commOpen = FALSE
    /\ address = 0
    /\ counter = DW(0, 0)
    /\ sessionKeys = ZeroKeys
    /\ stats = [sessionCount |-> 0, errorCount |-> 0, whenSession |-> 0]
    /\ pc = "idle"
    /\ call = NoCall
    /\ command = NoCommand
    /\ retry = 0
    /\ lastCall = "Alloc"
    /\ lastRc = SSCP_SUCCESS
    /\ out = NoOut
    /\ preCounter = DW(0, 0)
    /\ attempts = <<>>
    /\ response = NoResponse
    /\ checks = <<>>
    /\ accepted = {}
    /\ replayed = FALSE
    /\ nExchanges = 0
    /\ handshake = NoHandshake
    /\ raw = NoRaw
    /\ guard = NoGuard
    /\ wrapped = NoWrapped
    /\ blocks = NoBlocks

Init == ContextAllocated /\ selftest = FALSE

(* ------------------------------------------------------------------ *)
(* SSCP_Open, SSCP_Close                                               *)
(* ------------------------------------------------------------------ *)
NoHistory ==
    /\ out' = NoOut
    /\ attempts' = <<>>
    /\ response' = NoResponse
    /\ checks' = <<>>
    /\ replayed' = FALSE
    /\ preCounter' = counter
    /\ handshake' = NoHandshake
    /\ wrapped' = NoWrapped
    /\ UNCHANGED <<call, command, retry, nExchanges, selftest, raw, guard, blocks>>

SSCP_Open ==
    /\ pc = "idle"
    /\ ~commOpen
    /\ commOpen' = TRUE
    /\ lastCall' = "Open"
    /\ lastRc' = SSCP_SUCCESS
    /\ NoHistory
    /\ UNCHANGED <<address, counter, sessionKeys, stats, pc, accepted>>

SSCP_Close ==
    /\ pc = "idle"
    /\ commOpen
    /\ commOpen' = FALSE
    /\ lastCall' = "Close"
    /\ lastRc' = SSCP_SUCCESS
    /\ NoHistory
    /\ UNCHANGED <<address, counter, sessionKeys, stats, pc, accepted>>

(* ------------------------------------------------------------------ *)
(* SSCP_Authenticate                                                   *)
(* ------------------------------------------------------------------ *)
\* What one SSCP_Authenticate meets: the key passed, SSCP_GetRandom (rng,
\* rndA), the port during round 1 (io1), SSCP_HMAC for hB (hm1), the RndA'
\* and RndB received and whether the 32 bytes at response[40] are the HMAC
\* of the 40 before them (hBok), SSCP_HMAC for hA (hm2), the port during
\* round 2 (io2) with the bytes of its reply (reply2),
\* SSCP_ComputeSessionKeys (csk).
AuthEnvOk(K, rndA, rndB) ==
    [K |-> K, rng |-> TRUE, rndA |-> rndA, io1 |-> IoOk(72), hm1 |-> TRUE,
     rndAp |-> rndA, hBok |-> TRUE, rndB |-> rndB, hm2 |-> TRUE,
     io2 |-> IoOk(6), reply2 |-> <<0, 0, 0, 0, 0, 8>>, csk |-> TRUE]

AuthEnvs(open) ==
    UNION {
        IF open
        THEN {AuthEnvOk(K, a, b),
              [AuthEnvOk(K, a, b) EXCEPT !.rng = FALSE],
              [AuthEnvOk(K, a, b) EXCEPT !.io1.hdr = SSCP_ERR_COMM_RECV_MUTE],
              [AuthEnvOk(K, a, b) EXCEPT !.hm1 = FALSE],
              [AuthEnvOk(K, a, b) EXCEPT !.hBok = FALSE],
              [AuthEnvOk(K, a, b) EXCEPT !.hm2 = FALSE],
              [AuthEnvOk(K, a, b) EXCEPT !.io2.hdr = SSCP_ERR_COMM_RECV_MUTE],
              [AuthEnvOk(K, a, b) EXCEPT !.csk = FALSE]}
        ELSE {[AuthEnvOk(K, a, b) EXCEPT !.io1 = io] : io \in IoClosed}
        : K \in AuthKeys, a \in RndValues, b \in RndValues}

\* The first byte of the fixed RndA, and of the RndB inside the fixed
\* round-1 response, of the self-test.
SelfTestRndA == 117
SelfTestRndB == 200

\* The RndA and RndB the handshake works with.
RndAOf(e, st) == IF st THEN SelfTestRndA ELSE e.rndA
RndBOf(e, st) == IF st THEN SelfTestRndB ELSE e.rndB

\* A handshake that goes to the port whatever the flag says.
UsesPortAlways(st) == TRUE

\* if (SSCP_SELFTEST) ... else: the random generator and the port are used.
UsesPort(st) == ~st

\* A handshake that does not compare hB.
SignatureIgnored(e) == FALSE

\* A handshake that also wants the RndA' received to be that of its RndA.
SignatureOrRndApMismatch(e) == ~e.hBok \/ e.rndAp # e.rndA

\* memcmp(hB, &response[offset], 32): the 32 bytes after the first 40 of
\* the round-1 response differ from the HMAC of these 40 bytes under the key.
SignatureMismatch(e) == ~e.hBok

Round1(e, addr, st) ==
    SSCP_ExchangeRaw(addr, SSCP_PROTOCOL_AUTHENTICATE,
                     [round |-> 1, rndA |-> RndAOf(e, st)], 18, AuthResponseSz, e.io1)

\* A handshake that takes the six bytes of the ACK and nothing else.
Round2Acked(e, addr, st) ==
    LET r == SSCP_ExchangeRaw(addr, SSCP_PROTOCOL_AUTHENTICATE,
                              [round |-> 2, rndB |-> RndBOf(e, st), hA |-> e.K], 52,
                              AuthResponseSz, e.io2)
    IN  IF r.rc = SSCP_SUCCESS /\ e.reply2 # <<0, 0, 0, 0, 0, 8>>
        THEN [r EXCEPT !.rc = SSCP_ERR_WRONG_RESPONSE_FORMAT]
        ELSE r

Round2(e, addr, st) ==
    SSCP_ExchangeRaw(addr, SSCP_PROTOCOL_AUTHENTICATE,
                     [round |-> 2, rndB |-> RndBOf(e, st), hA |-> e.K], 52, AuthResponseSz, e.io2)

AuthenticateRc(e, addr, st) ==
    IF UsesPort(st) /\ ~e.rng THEN SSCP_ERR_INTERNAL_FAILURE
    ELSE IF UsesPort(st) /\ Round1(e, addr, st).rc # SSCP_SUCCESS THEN Round1(e, addr, st).rc
    ELSE IF ~e.hm1 THEN SSCP_ERR_INTERNAL_FAILURE
    ELSE IF SignatureMismatch(e) THEN SSCP_ERR_WRONG_RESPONSE_SIGNATURE
    ELSE IF ~e.hm2 THEN SSCP_ERR_INTERNAL_FAILURE
    ELSE IF UsesPort(st) /\ Round2(e, addr, st).rc # SSCP_SUCCESS THEN Round2(e, addr, st).rc
    ELSE IF ~e.csk THEN SSCP_ERR_INTERNAL_FAILURE
    ELSE SSCP_SUCCESS

\* The SSCP_ExchangeRaw calls the handshake makes, in order.
AuthenticateRaws(e, addr, st) ==
    LET Rec(r) == [rc |-> r.rc, sent |-> r.sent, frame |-> r.frame] IN
    IF ~UsesPort(st) \/ ~e.rng THEN <<>>
    ELSE IF \/ Round1(e, addr, st).rc # SSCP_SUCCESS
            \/ ~e.hm1
            \/ SignatureMismatch(e)
            \/ ~e.hm2
    THEN <<Rec(Round1(e, addr, st))>>
    ELSE <<Rec(Round1(e, addr, st)), Rec(Round2(e, addr, st))>>

\* A handshake that writes the session into the context as soon as hB is
\* verified, before round 2.
SessionStartedAtSignature(e, addr, st) ==
    \/ AuthenticateRc(e, addr, st) = SSCP_SUCCESS
    \/ /\ ~(UsesPort(st) /\ ~e.rng)
       /\ ~(UsesPort(st) /\ Round1(e, addr, st).rc # SSCP_SUCCESS)
       /\ e.hm1
       /\ ~SignatureMismatch(e)
       /\ e.hm2

\* The session keys, ctx->counter and the statistics are written after
\* the last return of an error.
SessionStarted(e, addr, st) == AuthenticateRc(e, addr, st) = SSCP_SUCCESS

\* A session start that leaves ctx->counter where it was.
SessionCounterKept(ctr) == ctr

\* ctx->counter = 1
SessionCounter(ctr) == DW(0, 1)

\* ctx->stats.sessionCount++; ctx->stats.whenSession = time(NULL)
SessionStats(st) == [st EXCEPT !.sessionCount = @ + 1, !.whenSession = 1]

AuthenticateStep(envs) ==
    /\ pc = "idle"
    /\ stats.sessionCount < MaxSessions
    /\ \E e \in envs :
         LET rc == AuthenticateRc(e, address, selftest) IN
         /\ lastRc' = rc
         /\ attempts' = AuthenticateRaws(e, address, selftest)
         /\ handshake' = [called |-> TRUE, env |-> e,
                          rndA |-> RndAOf(e, selftest), rndB |-> RndBOf(e, selftest),
                          before |-> [counter |-> counter, sessionKeys |-> sessionKeys,
                                      stats |-> stats]]
         /\ IF SessionStarted(e, address, selftest)
            THEN /\ sessionKeys' = SSCP_ComputeSessionKeys(e.K, RndAOf(e, selftest),
                                                           RndBOf(e, selftest))
                 /\ counter' = SessionCounter(counter)
                 /\ stats' = SessionStats(stats)
                 /\ accepted' = {}
            ELSE UNCHANGED <<sessionKeys, counter, stats, accepted>>
    /\ lastCall' = "Authenticate"
    /\ out' = NoOut
    /\ response' = NoResponse
    /\ checks' = <<>>
    /\ replayed' = FALSE
    /\ preCounter' = counter'
    /\ wrapped' = NoWrapped
    /\ UNCHANGED <<commOpen, address, pc, call, command, retry, nExchanges, selftest, raw,
                   guard, blocks>>

SSCP_Authenticate == AuthenticateStep(AuthEnvs(commOpen))

(* ------------------------------------------------------------------ *)
(* SSCP_ExchangeEx: building the command                               *)
(* ------------------------------------------------------------------ *)
\* commandHeader values (type:8, code:16), commandData sizes, and the
\* caller's output arguments: (NULL, 0, NULL) or a buffer with its size.
CmdHeaders == {7, 95}
DataSizes == {3, 4097}
CallerBufs == {[hasBuf |-> FALSE, maxSz |-> 0], [hasBuf |-> TRUE, maxSz |-> 8]}
IVs == {1}
\* The primitive that fails while the command is built, if any.
BuildEnvs == {"ok", "calloc", "hmac", "random", "cipher"}

CommandType(hdr) == (hdr \div 65536) % 256
CommandCode(hdr) == hdr % 65536

\* Length of header, data and signature, padded to a multiple of 16:
\* one byte 0x80 when needed, then 0x00 while needed.
PaddedSz(dataSz) ==
    LET n == 10 + dataSz + 32
        m == IF n % 16 # 0 THEN n + 1 ELSE n
    IN  IF m % 16 # 0 THEN m + (16 - (m % 16)) ELSE m

BuildCommand(ctr, keys, c, iv) ==
    [ctr |-> CounterBytes(ctr), type |-> c.type, code |-> c.code,
     lenField |-> (c.dataSz + 1) % 65536,
     signKey |-> keys.SignAB, cipherKey |-> keys.CipherAB,
     iv |-> iv, sz |-> PaddedSz(c.dataSz) + 16]

\* free(): the block goes back to the allocator with the bytes it holds.
Freed(content) == content

\* free(response); free(command), at the end and at failed:
Released(cmd, resp) ==
    [state |-> "freed", command |-> Freed(cmd), response |-> Freed(resp)]

\* The two blocks when the entry of SSCP_ExchangeEx is over: none before
\* calloc has given both; released with the command in clear when
\* SSCP_HMAC, SSCP_GetRandom or SSCP_Cipher fails; else in use, the
\* command enciphered in place and the response block as calloc left it.
BuildBlocks(dataSz, env) ==
    IF dataSz > 4096 \/ env = "calloc" THEN NoBlocks
    ELSE IF env \in {"hmac", "random", "cipher"} THEN Released("plaintext", "zeros")
    ELSE [state |-> "live", command |-> "ciphertext", response |-> "zeros"]

\* The response block after one SSCP_ExchangeRaw: written once
\* SSCP_SerialRecv(ctx, response, length) was called.
AfterAttempt(content, r) == IF Len(r.ports) >= 7 THEN "received" ELSE content

\* The response block after the validation: SSCP_Decipher works in place.
AfterValidation(steps) == IF Len(steps) >= 3 THEN "plaintext" ELSE "received"

BuildRc(dataSz, env) ==
    IF dataSz > 4096 THEN SSCP_ERR_COMMAND_TOO_LONG
    ELSE IF env = "calloc" THEN SSCP_ERR_OUT_OF_MEMORY
    ELSE IF env \in {"hmac", "random", "cipher"} THEN SSCP_ERR_INTERNAL_FAILURE
    ELSE SSCP_SUCCESS

\* Entry of SSCP_ExchangeEx up to the retry loop, for a caller that hands
\* one of the headers, data sizes and output arguments given.
BeginCore(hdrs, sizes, bufs, envs, modes) ==
    /\ pc = "idle"
    /\ nExchanges < MaxExchanges
    /\ \E hdr \in hdrs, dataSz \in sizes, buf \in bufs, env \in envs, iv \in IVs,
          mode \in modes :
         LET c == [type |-> CommandType(hdr), code |-> CommandCode(hdr),
                   dataSz |-> dataSz, hasBuf |-> buf.hasBuf, maxSz |-> buf.maxSz,
                   selftest |-> mode]
             rc == BuildRc(dataSz, env)
         IN  /\ call' = c
             /\ blocks' = BuildBlocks(dataSz, env)
             /\ IF rc = SSCP_SUCCESS
                THEN /\ command' = BuildCommand(counter, sessionKeys, c, iv)
                     /\ pc' = "loop"
                     /\ lastRc' = lastRc
                ELSE /\ command' = NoCommand
                     /\ pc' = "idle"
                     /\ lastRc' = rc
    /\ lastCall' = "Exchange"
    /\ nExchanges' = nExchanges + 1
    /\ retry' = 0
    /\ preCounter' = counter
    /\ out' = NoOut
    /\ attempts' = <<>>
    /\ response' = NoResponse
    /\ checks' = <<>>
    /\ replayed' = FALSE
    /\ handshake' = NoHandshake
    /\ UNCHANGED <<commOpen, address, counter, sessionKeys, stats, accepted, selftest, raw>>

\* SSCP_Exchange called by the application: no guard, nothing after it.
BeginStep(hdrs, sizes, envs, modes) ==
    /\ BeginCore(hdrs, sizes, CallerBufs, envs, modes)
    /\ wrapped' = NoWrapped
    /\ UNCHANGED guard

\* SSCP_Exchange hands selftest = FALSE to SSCP_ExchangeEx, whatever
\* SSCP_SELFTEST is; SSCP_Exchange_SelfTest hands TRUE.
ExchangeMode == {FALSE}
ExchangeSelfTestMode == {TRUE}

\* SSCP_Outputs: SSCP_CMD_OUTPUTS with 3 bytes of data, through SSCP_Exchange.
SSCP_Exchange == BeginStep({7}, {3}, {"ok", "calloc"}, ExchangeMode)

(* ------------------------------------------------------------------ *)
(* SSCP_ExchangeEx: validating the response                            *)
(* ------------------------------------------------------------------ *)
\* The fields of a received payload once deciphered: sz is the payload
\* length as received (ciphertext and IV), ctr the bytes 0..3, code the
\* bytes 4..5, T the bytes 6..7, stype and scode the bytes 8+T and 9+T,
\* sigOk whether the 32 bytes at 10+T equal the HMAC computed, pad the
\* bytes from 10+T+32 to the end of what was deciphered, d0 the byte 8
\* (the first byte of the data, when T > 0).
CounterFields == {<<0, 0, 0, 0>>, <<0, 0, 0, 1>>, <<0, 0, 0, 2>>,
                  <<255, 255, 255, 255>>}
RespCodes == {7, 95}
RespLens == {0, 7}
RespTypes == {0, 1}
StatusCodes == {0, 5}

\* A payload too short, or not a multiple of 16: nothing is deciphered.
RespShort(len) == [NoResponse EXCEPT !.sz = len]

\* The bytes that follow the HMAC when sz bytes were received and the
\* length field is T: 0x80 and 0x00s, as the reader pads.
PadOf(sz, T) ==
    LET n == sz - 16 - (4 + 2 + 2 + T + 2 + 32)
    IN  IF n \in 1..16 THEN [i \in 1..n |-> IF i = 1 THEN 128 ELSE 0] ELSE <<>>

\* Every combination of the fields, for the payload lengths that pass.
AllResponses ==
    {[sz |-> sz, ctr |-> ctr, code |-> code, T |-> T, stype |-> stype,
      scode |-> scode, sigOk |-> sigOk, pad |-> PadOf(sz, T), d0 |-> 0] :
        sz \in {64, 80}, ctr \in CounterFields, code \in RespCodes, T \in RespLens,
        stype \in RespTypes, scode \in StatusCodes, sigOk \in BOOLEAN}
    \cup {RespShort(15), RespShort(40)}

\* The well-formed answer to SSCP_CMD_OUTPUTS carrying counter ctr, and
\* answers that differ from one in a single field.
RespOk(ctr) == [sz |-> 64, ctr |-> ctr, code |-> 7, T |-> 0, stype |-> 0,
                scode |-> 0, sigOk |-> TRUE, pad |-> PadOf(64, 0), d0 |-> 0]

\* The same answer with 7 bytes of data.
RespData(ctr) == [RespOk(ctr) EXCEPT !.sz = 80, !.T = 7, !.pad = PadOf(80, 7)]

SomeResponses ==
    {RespOk(c) : c \in CounterFields}
    \cup {[RespOk(<<0, 0, 0, 2>>) EXCEPT !.sigOk = FALSE],
          [RespOk(<<0, 0, 0, 2>>) EXCEPT !.scode = 5],
          RespData(<<0, 0, 0, 2>>),
          RespShort(15)}

\* Answers of 16 bytes (an IV and nothing else), of 24 bytes, the
\* well-formed ones, and some with a status byte of 01, 80 and FF.
ShapeResponses ==
    SomeResponses
    \cup {[RespOk(<<0, 0, 0, 2>>) EXCEPT !.sz = 16, !.pad = <<>>], RespShort(24)}
    \cup {[RespOk(<<0, 0, 0, 2>>) EXCEPT !.scode = sc] : sc \in {1, 128, 255}}

\* Answers the reader gives to SSCP_CMD_OUTPUTS: without data, with
\* data, with a device status.
GenuineResponses ==
    {RespOk(c) : c \in CounterFields}
    \cup {RespData(c) : c \in CounterFields}
    \cup {[RespOk(<<0, 0, 0, 2>>) EXCEPT !.scode = 5]}

\* One bit of the deciphered buffer: the field it lies in, the byte of
\* the field (from 1) and the bit of the byte or of the 16-bit field.
Flips(v) ==
    {[field |-> "ctr", byte |-> i, bit |-> b] : i \in 1..4, b \in {0, 7}}
    \cup {[field |-> fd, byte |-> 1, bit |-> b] : fd \in {"code", "T"}, b \in {0, 4, 15}}
    \cup {[field |-> fd, byte |-> 1, bit |-> b] : fd \in {"stype", "scode"}, b \in {0, 7}}
    \cup {[field |-> "data", byte |-> i, bit |-> 0] : i \in 1..v.T}
    \cup {[field |-> "hmac", byte |-> i, bit |-> 7] : i \in {1, 32}}
    \cup {[field |-> "pad", byte |-> i, bit |-> b] : i \in 1..Len(v.pad), b \in {0, 7}}

Pow2(b) == 2 ^ b

\* The buffer v with bit f changed, as SSCP_ExchangeEx reads it. A bit
\* changed in the bytes 0..9+T changes the HMAC computed over them, a bit
\* changed in the 32 bytes that follow changes the HMAC received: either
\* way the two no longer compare equal. The bytes after them are read by
\* nothing.
Flip(v, f) ==
    IF f.field = "ctr"
    THEN [v EXCEPT !.ctr[f.byte] = Xor(@, Pow2(f.bit)), !.sigOk = FALSE]
    ELSE IF f.field = "code"
    THEN [v EXCEPT !.code = Xor(@, Pow2(f.bit)), !.sigOk = FALSE]
    ELSE IF f.field = "T"
    THEN [v EXCEPT !.T = Xor(@, Pow2(f.bit)), !.sigOk = FALSE]
    ELSE IF f.field = "stype"
    THEN [v EXCEPT !.stype = Xor(@, Pow2(f.bit)), !.sigOk = FALSE]
    ELSE IF f.field = "scode"
    THEN [v EXCEPT !.scode = Xor(@, Pow2(f.bit)), !.sigOk = FALSE]
    ELSE IF f.field = "pad"
    THEN [v EXCEPT !.pad[f.byte] = Xor(@, Pow2(f.bit))]
    ELSE [v EXCEPT !.sigOk = FALSE]

TamperedResponses ==
    GenuineResponses
    \cup UNION {{Flip(v, f) : f \in Flips(v)} : v \in GenuineResponses}

LengthBad(resp) == (resp.sz < 16) \/ (resp.sz % 16 # 0)

\* The comparison with >= in place of >.
CounterAcceptsEqual(t, ctr) == ~DWGt(ctr, t)

\* if (t > ctx->counter)
CounterAccepts(t, ctr) == DWGt(t, ctr)

\* ctx->counter = t + 1
NextCounter(t) == DWInc(t)

\* The comparison of response[4] alone.
OpcodeHighByteOnly(resp, c) == (resp.code \div 256) # (c.code \div 256)

OpcodeBad(resp, c) == resp.code # c.code

\* A check that wants room to spare on both sides.
EnvelopeStrict(resp) ==
    LET D == resp.sz - 16 IN
    (D <= 4 + 2 + 2 + resp.T + 2 + 32) \/ (D >= 4 + 2 + 2 + resp.T + 2 + 32 + 16)

\* Is the length correct?  responseSz is the payload less the IV by now.
EnvelopeBad(resp) ==
    LET D == resp.sz - 16 IN
    (D < 4 + 2 + 2 + resp.T + 2 + 32) \/ (D > 4 + 2 + 2 + resp.T + 2 + 32 + 16)

SignatureBad(resp) == ~resp.sigOk

TypeBad(resp, c) == resp.stype # c.type

Overflows(resp, c) == resp.T > 0 /\ resp.T > c.maxSz

\* The status byte held in a signed char.
StatusRcSigned(resp) == IF resp.scode > 127 THEN resp.scode - 256 ELSE resp.scode

\* The value returned once every check has passed: BYTE responseCode,
\* widened to LONG.
StatusRc(resp) == IF resp.scode # 0 THEN resp.scode ELSE SSCP_SUCCESS

\* From the received payload to the value returned: rc, the new
\* ctx->counter, the steps gone through and the caller's outputs.
\* decOk and hmOk: SSCP_Decipher and SSCP_HMAC succeed.
Validate(resp, ctr, c, decOk, hmOk) ==
    LET V(rc, n, steps, o) == [rc |-> rc, counter |-> n, checks |-> steps, out |-> o]
        t == ParseCounter(resp.ctr)
        n == NextCounter(t)
        stored == [actSz |-> IF c.hasBuf THEN resp.T ELSE -1, copied |-> 0]
        copied == [stored EXCEPT !.copied = IF c.hasBuf THEN resp.T ELSE 0]
    IN  IF LengthBad(resp)
        THEN V(SSCP_ERR_WRONG_RESPONSE_LENGTH, ctr, <<"length">>, NoOut)
        ELSE IF ~decOk
        THEN V(SSCP_ERR_INTERNAL_FAILURE, ctr, <<"length", "decipher">>, NoOut)
        ELSE IF ~CounterAccepts(t, ctr)
        THEN V(SSCP_ERR_WRONG_RESPONSE_COUNTER, ctr,
               <<"length", "decipher", "counter">>, NoOut)
        ELSE IF OpcodeBad(resp, c)
        THEN V(SSCP_ERR_WRONG_RESPONSE_COMMAND, n,
               <<"length", "decipher", "counter", "opcode">>, NoOut)
        ELSE IF EnvelopeBad(resp)
        THEN V(SSCP_ERR_WRONG_RESPONSE_FORMAT, n,
               <<"length", "decipher", "counter", "opcode", "envelope">>, NoOut)
        ELSE IF ~hmOk
        THEN V(SSCP_ERR_INTERNAL_FAILURE, n,
               <<"length", "decipher", "counter", "opcode", "envelope", "hmac">>, NoOut)
        ELSE IF SignatureBad(resp)
        THEN V(SSCP_ERR_WRONG_RESPONSE_SIGNATURE, n,
               <<"length", "decipher", "counter", "opcode", "envelope", "hmac">>, NoOut)
        ELSE IF TypeBad(resp, c)
        THEN V(SSCP_ERR_WRONG_RESPONSE_TYPE, n,
               <<"length", "decipher", "counter", "opcode", "envelope", "hmac", "type">>,
               NoOut)
        ELSE IF Overflows(resp, c)
        THEN V(SSCP_ERR_OUTPUT_BUFFER_OVERFLOW, n,
               <<"length", "decipher", "counter", "opcode", "envelope", "hmac", "type",
                 "size">>, stored)
        ELSE V(StatusRc(resp), n,
               <<"length", "decipher", "counter", "opcode", "envelope", "hmac", "type",
                 "size", "status">>, IF resp.T > 0 THEN copied ELSE stored)

(* ------------------------------------------------------------------ *)
(* SSCP_ExchangeEx: the retry loop                                     *)
(* ------------------------------------------------------------------ *)
\* SSCP_Decipher and SSCP_HMAC of the response path: both succeed, or one fails.
CryptoEnvs == {<<TRUE, TRUE>>, <<FALSE, TRUE>>, <<TRUE, FALSE>>}

\* A loop that takes a CRC error for a timeout.
IsTimeoutOrCrc(rc) ==
    rc \in {SSCP_ERR_COMM_RECV_MUTE, SSCP_ERR_COMM_RECV_STOPPED, SSCP_ERR_WRONG_RESPONSE_CRC}

\* Not a timeout error? So fatal!
IsTimeout(rc) == rc \in {SSCP_ERR_COMM_RECV_MUTE, SSCP_ERR_COMM_RECV_STOPPED}

\* The loop condition with <= in place of <, and with one iteration less.
LoopAgainInclusive(r) == r <= SSCP_MAX_TIMEOUT_RETRY
LoopAgainShort(r) == r < SSCP_MAX_TIMEOUT_RETRY - 1

\* The loop condition, evaluated after retry++.
LoopAgain(r) == r < SSCP_MAX_TIMEOUT_RETRY

\* We have recovered this error.
Recovered(r, st) == IF r > 0 THEN [st EXCEPT !.errorCount = @ + 1] ELSE st

Return(rc) ==
    /\ lastRc' = rc
    /\ pc' = "idle"
    /\ command' = NoCommand
    /\ retry' = 0

\* A loop that draws a new IV for each attempt.
RedrawnCommand(cmd, r) == [cmd EXCEPT !.iv = cmd.iv + r]

\* The buffer handed to SSCP_ExchangeRaw by attempt number r: command and
\* commandSz as they were built before the loop.
ResentCommand(cmd, r) == cmd

\* SSCP_ScanNFC and SSCP_ScanARaw after SSCP_Exchange, for answers that
\* carry at most three bytes of data: the first of them tells the tag
\* found, and a tag takes more bytes than that.
ScanReturn(name, rc, actSz, d0) ==
    IF rc # 0 THEN rc
    ELSE IF actSz < 1 THEN SSCP_ERR_WRONG_RESPONSE_LENGTH
    ELSE IF d0 = 0 THEN SSCP_SUCCESS
    ELSE IF d0 = 1 /\ actSz < 4 THEN SSCP_ERR_UNSUPPORTED_RESPONSE_LENGTH
    ELSE IF d0 = 2 /\ name = "ScanNFC" /\ actSz < 4
    THEN SSCP_ERR_UNSUPPORTED_RESPONSE_LENGTH
    ELSE SSCP_ERR_UNSUPPORTED_RESPONSE_STATUS

\* switch (responseStatus): the value returned for each first byte.
ApduStatus(responseStatus) ==
    IF responseStatus = 0 THEN SSCP_SUCCESS
    ELSE IF responseStatus = 1 THEN SSCP_ERR_NFC_CARD_MUTE_OR_REMOVED
    ELSE IF responseStatus = 2 THEN SSCP_ERR_NFC_CARD_COMM_ERROR
    ELSE SSCP_ERR_UNSUPPORTED_RESPONSE_STATUS

\* SSCP_TransceiveNFC after SSCP_Exchange, from free(commandFull) on.  A
\* heap damaged by the write past commandFull stops the process there.
TransceiveReturn(w, rc, actSz, d0) ==
    LET R(v) == [w EXCEPT !.state = "returned", !.rc = v] IN
    IF w.heap = "damaged" THEN [w EXCEPT !.state = "aborted"]
    ELSE IF rc # 0 THEN R(rc)
    ELSE IF actSz < 1 THEN R(SSCP_ERR_WRONG_RESPONSE_LENGTH)
    ELSE IF ApduStatus(d0) # SSCP_SUCCESS THEN R(ApduStatus(d0))
    ELSE IF actSz - 1 > w.maxResponseApduSz
    THEN [R(SSCP_ERR_OUTPUT_BUFFER_OVERFLOW) EXCEPT !.actResponseApduSz = actSz - 1]
    ELSE [R(SSCP_SUCCESS) EXCEPT !.actResponseApduSz = actSz - 1, !.copied = actSz - 1]

\* What the caller of SSCP_Exchange does with what it returned.
WrapperReturn(w, rc, o, resp) ==
    IF w.name = "none" THEN w
    ELSE IF w.name \in {"ScanNFC", "ScanARaw"}
    THEN [w EXCEPT !.state = "returned", !.rc = ScanReturn(w.name, rc, o.actSz, resp.d0)]
    ELSE TransceiveReturn(w, rc, o.actSz, resp.d0)

\* One iteration of the retry loop: one SSCP_ExchangeRaw.  An iteration
\* that leaves the loop runs on to the return of SSCP_ExchangeEx.  ios:
\* what the port may do; resps: what the reader may answer.
\* What is kept of one SSCP_ExchangeRaw of the loop; traced: with the
\* driver calls it made.
AttemptOf(r, traced) ==
    IF traced
    THEN [rc |-> r.rc, sent |-> r.sent, frame |-> r.frame, ports |-> r.ports]
    ELSE [rc |-> r.rc, sent |-> r.sent, frame |-> r.frame]

\* The response in hand: its validation, and the return of SSCP_ExchangeEx.
ValidateAndReturn(resp, cr) ==
    LET v == Validate(resp, counter, call, cr[1], cr[2]) IN
    /\ stats' = Recovered(retry, stats)
    /\ counter' = v.counter
    /\ response' = resp
    /\ checks' = v.checks
    /\ out' = v.out
    /\ replayed' = (resp \in accepted)
    /\ accepted' = IF v.rc = SSCP_SUCCESS THEN accepted \cup {resp} ELSE accepted
    /\ blocks' = Released(blocks.command, AfterValidation(v.checks))
    /\ Return(v.rc)

LoopCore(ios, resps, traced) ==
    /\ pc = "loop"
    /\ IF call.selftest
       THEN \* the fixed 64-byte response stands for the reader's: no SSCP_ExchangeRaw
            /\ attempts' = attempts
            /\ \E resp \in {x \in resps : x.sz = 64}, cr \in CryptoEnvs :
                   ValidateAndReturn(resp, cr)
       ELSE \E io \in ios :
              LET r == SSCP_ExchangeRaw(address, SSCP_PROTOCOL_SECURE,
                                        ResentCommand(command, retry), command.sz, ExchangeEx_maxResponseSz, io)
              IN  /\ attempts' = Append(attempts,
                                        AttemptOf(r, traced))
                  /\ IF r.rc = SSCP_SUCCESS
                     THEN \E resp \in {x \in resps : x.sz = r.respSz}, cr \in CryptoEnvs :
                            ValidateAndReturn(resp, cr)
                     ELSE IF IsTimeout(r.rc) /\ LoopAgain(retry + 1)
                     THEN /\ retry' = retry + 1
                          /\ blocks' = [blocks EXCEPT !.response = AfterAttempt(@, r)]
                          /\ UNCHANGED <<pc, command, lastRc, stats, counter, response,
                                         checks, out, replayed, accepted>>
                     ELSE /\ Return(r.rc)
                          /\ blocks' = Released(blocks.command,
                                                AfterAttempt(blocks.response, r))
                          /\ UNCHANGED <<stats, counter, response, checks, out, replayed,
                                         accepted>>
    /\ wrapped' = IF pc' = "idle" THEN WrapperReturn(wrapped, lastRc', out', response')
                   ELSE wrapped
    /\ UNCHANGED <<commOpen, address, sessionKeys, call, lastCall, preCounter, nExchanges,
                   selftest, handshake, raw, guard>>

LoopStep(ios, resps) == LoopCore(ios, resps, FALSE)

SSCP_ExchangeEx_Loop == LoopStep(IoSome(commOpen), SomeResponses)

Next ==
    \/ SSCP_Open
    \/ SSCP_Close
    \/ SSCP_Authenticate
    \/ SSCP_Exchange
    \/ SSCP_ExchangeEx_Loop

Spec == Init /\ [][Next]_vars

(* ------------------------------------------------------------------ *)
(* One SSCP_ExchangeEx, over every port behaviour and response         *)
(* ------------------------------------------------------------------ *)
\* Values ctx->counter takes in the course of sessions.
CounterValues == {DW(0, 0), DW(0, 1), DW(0, 3), DW(65535, 65535)}

\* An authenticated context on an open port, its counter one of ctrs,
\* with done exchanges behind it.
SessionOpen(ctrs, done) ==
    /\ commOpen = TRUE
    /\ address = 0
    /\ counter \in ctrs
    /\ sessionKeys = SSCP_ComputeSessionKeys("default", 1, 1)
    /\ stats = [sessionCount |-> 1, errorCount |-> 0, whenSession |-> 1]
    /\ pc = "idle"
    /\ call = NoCall
    /\ command = NoCommand
    /\ retry = 0
    /\ lastCall = "Authenticate"
    /\ lastRc = SSCP_SUCCESS
    /\ out = NoOut
    /\ preCounter = counter
    /\ attempts = <<>>
    /\ response = NoResponse
    /\ checks = <<>>
    /\ accepted = {}
    /\ replayed = FALSE
    /\ nExchanges = done
    /\ selftest = FALSE
    /\ handshake = NoHandshake
    /\ raw = NoRaw
    /\ guard = NoGuard
    /\ wrapped = NoWrapped
    /\ blocks = NoBlocks

\* All but one of the run's exchanges are behind.
InitExchange == SessionOpen(CounterValues, MaxExchanges - 1)

ExchangeBegin == BeginStep(CmdHeaders, DataSizes, BuildEnvs, ExchangeMode)

ExchangeLoop == LoopStep(IoOpen, AllResponses)

NextExchange == ExchangeBegin \/ ExchangeLoop

SpecExchange == InitExchange /\ [][NextExchange]_vars

(* ------------------------------------------------------------------ *)
(* The retry loop of one SSCP_ExchangeEx, run to its end                *)
(* ------------------------------------------------------------------ *)
RetryBegin == BeginStep({7}, {3}, {"ok"}, ExchangeMode)

RetryLoop == LoopStep(IoOpen, SomeResponses)

NextRetry == RetryBegin \/ RetryLoop

\* Every loop iteration ends: each serial call returns, on data or on the
\* timeouts SSCP_ExchangeRaw sets.
FairRetry == InitExchange /\ [][NextRetry]_vars /\ WF_vars(RetryLoop)

(* ------------------------------------------------------------------ *)
(* The self-test: SSCP_SELFTEST set, the port never opened             *)
(* ------------------------------------------------------------------ *)
InitSelfTest == ContextAllocated /\ selftest = TRUE

\* What a handshake meets when the port is left alone: the primitives,
\* and the comparison of the fixed hB.
AuthEnvsSelfTest ==
    UNION {{AuthEnvOk(K, a, b),
            [AuthEnvOk(K, a, b) EXCEPT !.hm1 = FALSE],
            [AuthEnvOk(K, a, b) EXCEPT !.hBok = FALSE],
            [AuthEnvOk(K, a, b) EXCEPT !.hm2 = FALSE],
            [AuthEnvOk(K, a, b) EXCEPT !.csk = FALSE]}
           : K \in AuthKeys, a \in RndValues, b \in RndValues}

SSCP_Authenticate_SelfTest == AuthenticateStep(AuthEnvsSelfTest)

SSCP_Exchange_SelfTest == BeginStep({7}, {3}, {"ok"}, ExchangeSelfTestMode)

NextSelfTest ==
    \/ SSCP_Authenticate_SelfTest
    \/ SSCP_Exchange
    \/ SSCP_Exchange_SelfTest
    \/ SSCP_ExchangeEx_Loop

SpecSelfTest == InitSelfTest /\ [][NextSelfTest]_vars

(* ------------------------------------------------------------------ *)
(* SSCP_ExchangeRaw on its own, against a port that delivers bytes     *)
(* ------------------------------------------------------------------ *)
LongCommandSz == 260

RawAddresses == {0, 5}
RawProtocols == {SSCP_PROTOCOL_AUTHENTICATE, SSCP_PROTOCOL_SECURE}

\* Commands: none, short ones, one whose length needs both LEN bytes, and
\* one byte more than the transport takes.
RawCommands ==
    {<<>>, <<0>>, <<255>>, <<1, 2>>, <<128, 0, 255>>,
     [i \in 1..LongCommandSz |-> (i * 7) % 256],
     [i \in 1..4097 |-> 0]}

\* The commands sent to address a under protocol p: the long one goes to
\* address 0 under SSCP_PROTOCOL_SECURE.
RawCommandsTo(a, p) ==
    IF a = 0 /\ p = SSCP_PROTOCOL_SECURE THEN RawCommands
    ELSE {c \in RawCommands : Len(c) # LongCommandSz}

\* sizeof(response) in SSCP_Authenticate, SSCP_ExchangeEx's maxResponseSz,
\* and a buffer of two bytes.
RawResponseSizes == {2, AuthResponseSz, ExchangeEx_maxResponseSz}

\* The byte at place k replaced by another one.
Corrupted(f, k) == [f EXCEPT ![k] = (@ + 1) % 256]

\* What an open port delivers after the frame f was written to it: f
\* itself, the start of f, f with one byte changed, another frame, or
\* a header that declares more than a buffer holds.
PortDelivers(f, a, p) ==
    {f, FrameBytes(a, p, <<6, 0>>)}
    \cup {FrameBytes(a + 1, p, <<6, 0>>),
          FrameBytes(a, (SSCP_PROTOCOL_AUTHENTICATE + SSCP_PROTOCOL_SECURE) - p, <<6, 0>>)}
    \cup {SubSeq(f, 1, n) : n \in {0, 3, 5, Len(f) - 2, Len(f) - 1}}
    \cup {Corrupted(f, k) : k \in {1, 3, 4, Len(f) - 2, Len(f) - 1, Len(f)}}
    \cup {<<2, 16, 1, a, p>>, <<2, 1, 1, a, p>>, <<2, 0, 3, a, p>>}

\* The driver calls of one SSCP_ExchangeRaw on an open port: the writes
\* succeed and rx comes back, or a call fails and nothing comes back.
RawIosOpen(f, a, p) ==
    {[rx |-> rx, io |-> IoReceiving(rx)] : rx \in PortDelivers(f, a, p)}
    \cup {[rx |-> <<>>, io |-> io] :
             io \in {[IoOk(0) EXCEPT !.st1 = SSCP_ERR_COMM_CONTROL_FAILED],
                     [IoOk(0) EXCEPT !.snd[2] = SSCP_ERR_COMM_SEND_FAILED],
                     [IoOk(0) EXCEPT !.hdr = SSCP_ERR_COMM_RECV_FAILED]}}

RawIos(open, a, p, c) ==
    IF ~open THEN {[rx |-> <<>>, io |-> io] : io \in IoClosed}
    ELSE IF Len(c) > 4096 THEN {[rx |-> <<>>, io |-> IoReceiving(<<>>)]}
    ELSE RawIosOpen(FrameBytes(a, p, c), a, p)

\* One call of SSCP_ExchangeRaw made directly, with its own arguments.
\* The call keeps nothing in the context, so one call is followed.
SSCP_ExchangeRaw_Call ==
    /\ pc = "idle"
    /\ ~raw.called
    /\ \E a \in RawAddresses, p \in RawProtocols, m \in RawResponseSizes :
         \E c \in RawCommandsTo(a, p) : \E port \in RawIos(commOpen, a, p, c) :
            LET r == SSCP_ExchangeRaw(a, p, c, Len(c), m, port.io) IN
            /\ raw' = [called |-> TRUE, address |-> a, protocol |-> p,
                       command |-> c, maxResponseSz |-> m,
                       rx |-> port.rx, io |-> port.io,
                       rc |-> r.rc, sent |-> r.sent,
                       actResponseSz |-> r.respSz,
                       ports |-> r.ports,
                       unread |-> Unread(port.rx, r.ports, port.io),
                       response |-> IF r.rc = SSCP_SUCCESS
                                    THEN ResponseBytes(port.rx) ELSE <<>>]
            /\ lastRc' = r.rc
    /\ lastCall' = "ExchangeRaw"
    /\ UNCHANGED <<commOpen, address, counter, sessionKeys, stats, pc, call, command,
                   retry, out, preCounter, attempts, response, checks, accepted,
                   replayed, nExchanges, selftest, handshake, guard, wrapped, blocks>>

NextCodec ==
    \/ SSCP_Open
    \/ SSCP_Close
    \/ SSCP_ExchangeRaw_Call

SpecCodec == Init /\ [][NextCodec]_vars

(* ------------------------------------------------------------------ *)
(* One SSCP_ExchangeEx, over command and response lengths              *)
(* ------------------------------------------------------------------ *)
\* commandDataSz values: none, some around a multiple of 16 (10 + 6 + 32
\* = 48), and the largest ones.
ShapeDataSizes == {0, 5, 6, 7, 22, 4038, 4039, 4096, 4097}

\* Payload lengths the reader answers with, and no answer at all.
ShapeIos ==
    {IoOk(n) : n \in {16, 24, 64, 80}}
    \cup {[IoOk(16) EXCEPT !.hdr = SSCP_ERR_COMM_RECV_MUTE]}

ShapeBegin == BeginStep({7}, ShapeDataSizes, {"ok", "cipher"}, ExchangeMode)

ShapeLoop == LoopStep(ShapeIos, ShapeResponses)

NextShapes == ShapeBegin \/ ShapeLoop

SpecShapes == InitExchange /\ [][NextShapes]_vars

(* ------------------------------------------------------------------ *)
(* One SSCP_ExchangeEx, over answers with one bit changed              *)
(* ------------------------------------------------------------------ *)
TamperBegin == BeginStep({7}, {3}, {"ok"}, ExchangeMode)

TamperLoop == LoopStep({IoOk(64), IoOk(80)}, TamperedResponses)

NextTamper == TamperBegin \/ TamperLoop

SpecTamper == InitExchange /\ [][NextTamper]_vars

(* ------------------------------------------------------------------ *)
(* The guard time (POSIX build) and the scans                          *)
(* ------------------------------------------------------------------ *)
\* The interval between two scans, in ms.  The macro is set in a header
\* that is not part of the sources at hand.
SSCP_SCAN_GLOBAL_GUARD_TIME == 200

\* Readings of CLOCK_MONOTONIC, as <<tv_sec, tv_nsec>>.
MaxSeconds == 1
NanoValues == {0, 1000, 1000000, 999999999}
ClockValues == {<<sec, nsec>> : sec \in 0..MaxSeconds, nsec \in NanoValues}

TimeLt(a, b) == a[1] < b[1] \/ (a[1] = b[1] /\ a[2] < b[2])

\* The reading ms milliseconds after the reading t.
TimeAfter(t, ms) ==
    LET nsec == t[2] + ((ms % 1000) * 1000000)
    IN  <<t[1] + (ms \div 1000) + (nsec \div 1000000000), nsec % 1000000000>>

\* elapsedMs = 1000UL * (now.tv_sec - guardStart.tv_sec)
\*           + (now.tv_nsec - guardStart.tv_nsec) * 1000000UL, kept in a DWORD
ElapsedMs(start, now) ==
    DWAdd(DWMul(ToDW(1000), DWOfInt(now[1] - start[1])),
          DWMul(DWOfInt(now[2] - start[2]), ToDW(1000000)))

\* A wait that leaves the guard running.
WaitKeepsRunning(g) ==
    IF ~g.running THEN g
    ELSE LET elapsedMs == ElapsedMs(g.start, g.now) IN
         IF DWGt(ToDW(g.value), elapsedMs)
         THEN [g EXCEPT !.now = TimeAfter(g.now, g.value - DWNat(elapsedMs))]
         ELSE g

\* SSCP_WaitGuardTime: if a guard runs, stop it, and sleep for what is
\* left of it when elapsedMs < guardValue.
SSCP_WaitGuardTime(g) ==
    IF ~g.running THEN g
    ELSE LET elapsedMs == ElapsedMs(g.start, g.now) IN
         IF DWGt(ToDW(g.value), elapsedMs)
         THEN [g EXCEPT !.running = FALSE,
                        !.now = TimeAfter(g.now, g.value - DWNat(elapsedMs))]
         ELSE [g EXCEPT !.running = FALSE]

\* SSCP_InitGuardTime: guardStart = now, guardValue = guardTimeMs.
SSCP_InitGuardTime(g, guardTimeMs) ==
    [g EXCEPT !.start = g.now, !.value = guardTimeMs, !.running = TRUE]

\* SSCP_GuardTime, and what the scan that called it notes: whether a
\* guard was running, when it was armed and for how long, and the reading
\* of the clock when the scan goes on to SSCP_Exchange.
SSCP_GuardTime(g, guardTimeMs) ==
    LET w == IF g.running THEN SSCP_WaitGuardTime(g) ELSE g
    IN  [SSCP_InitGuardTime(w, guardTimeMs) EXCEPT
            !.scans = g.scans + 1, !.waited = g.running, !.armed = g.start,
            !.due = g.value, !.sent = w.now]

\* The arguments of a scan: uid and ats buffers of 10 and 20 bytes.
ScanArgs(name) == [name |-> name, state |-> "called", rc |-> 0]

\* A scan, from its call to the retry loop of its SSCP_Exchange.
ScanStep(name, hdr, dataSz) ==
    /\ guard' = SSCP_GuardTime(guard, SSCP_SCAN_GLOBAL_GUARD_TIME)
    /\ BeginCore({hdr}, {dataSz}, {[hasBuf |-> TRUE, maxSz |-> 32]}, {"ok"}, ExchangeMode)
    /\ wrapped' = ScanArgs(name)

\* filter[] = { 0x00, 0x07 }
SSCP_ScanNFC == ScanStep("ScanNFC", SSCP_CMD_SCAN_GLOBAL, 2)

\* ats_spec[] = { 0x01 }
SSCP_ScanARaw == ScanStep("ScanARaw", SSCP_CMD_SCAN_A_RAW, 1)

\* Time passes.
Tick ==
    /\ \E t \in ClockValues : TimeLt(guard.now, t) /\ guard' = [guard EXCEPT !.now = t]
    /\ UNCHANGED <<commOpen, address, counter, sessionKeys, stats, pc, call, command,
                   retry, lastCall, lastRc, out, preCounter, attempts, response, checks,
                   accepted, replayed, nExchanges, selftest, handshake, raw, wrapped,
                   blocks>>

\* Answers to a scan: no tag, a status that is none of the scan's, no
\* data at all.
ScanResponses ==
    {[RespOk(<<0, 0, 0, c>>) EXCEPT !.code = hdr, !.T = 1, !.pad = PadOf(64, 1), !.d0 = d] :
        c \in {2, 4}, hdr \in {SSCP_CMD_SCAN_GLOBAL, SSCP_CMD_SCAN_A_RAW}, d \in {0, 9}}
    \cup {[RespOk(<<0, 0, 0, 2>>) EXCEPT !.code = SSCP_CMD_SCAN_GLOBAL]}

ScanLoop ==
    LoopStep({IoOk(64), [IoOk(16) EXCEPT !.snd[1] = SSCP_ERR_COMM_SEND_FAILED]},
             ScanResponses)

InitGuard == SessionOpen({DW(0, 1)}, 0)

NextGuard ==
    \/ SSCP_ScanNFC
    \/ SSCP_ScanARaw
    \/ ScanLoop
    \/ Tick

SpecGuard == InitGuard /\ [][NextGuard]_vars

(* ------------------------------------------------------------------ *)
(* SSCP_TransceiveNFC                                                  *)
(* ------------------------------------------------------------------ *)
\* commandApduSz and maxResponseApduSz.
ApduSizes == {0, 5}
ApduBufs == {2, 16}

\* commandFull = calloc(commandApduSz, 1), then 1 + commandApduSz bytes
\* written to it: calloc gives NULL, or a block with room to spare behind
\* it ("whole"), or one without, and the byte written past the block
\* damages the heap.
Heaps == {"null", "whole", "damaged"}

\* commandFull = calloc(commandApduSz, 1): the bytes of the block.
CommandFullSz(apduSz) == apduSz

\* commandFull[0] = 0x00; memcpy(&commandFull[1], commandApdu,
\* commandApduSz): the bytes written from the start of the block.
CommandFullWritten(apduSz) == 1 + apduSz

TransceiveArgs(apduSz, maxSz, heap) ==
    [name |-> "TransceiveNFC", state |-> "called", rc |-> 0,
     commandApduSz |-> apduSz, maxResponseApduSz |-> maxSz, heap |-> heap,
     allocated |-> IF heap = "null" THEN 0 ELSE CommandFullSz(apduSz),
     written |-> IF heap = "null" THEN 0 ELSE CommandFullWritten(apduSz),
     actResponseApduSz |-> 0, copied |-> 0]

\* SSCP_TransceiveNFC, from its call to the retry loop of its
\* SSCP_Exchange, or to its return when calloc fails.
SSCP_TransceiveNFC ==
    /\ pc = "idle"
    /\ wrapped.name = "none"
    /\ \E apduSz \in ApduSizes, maxSz \in ApduBufs, heap \in Heaps :
         IF heap = "null"
         THEN /\ wrapped' = [TransceiveArgs(apduSz, maxSz, heap) EXCEPT
                                !.state = "returned", !.rc = SSCP_ERR_OUT_OF_MEMORY]
              /\ UNCHANGED <<commOpen, address, counter, sessionKeys, stats, pc, call,
                             command, retry, lastCall, lastRc, out, preCounter, attempts,
                             response, checks, accepted, replayed, nExchanges, selftest,
                             handshake, raw, blocks>>
         ELSE /\ wrapped' = TransceiveArgs(apduSz, maxSz, heap)
              /\ BeginCore({SSCP_CMD_TRANSCEIVE_APDU}, {CommandFullWritten(apduSz)},
                           {[hasBuf |-> TRUE, maxSz |-> 256]}, {"ok"}, ExchangeMode)
    /\ UNCHANGED guard

\* Answers to TRANSCEIVE_APDU: no data, a status byte alone, a status
\* byte and six bytes of APDU; with and without a device status.
ApduResponses ==
    {[RespOk(<<0, 0, 0, 2>>) EXCEPT !.code = SSCP_CMD_TRANSCEIVE_APDU, !.sz = 64 + (16 * (T \div 7)),
                                     !.T = T, !.pad = PadOf(64 + (16 * (T \div 7)), T),
                                     !.d0 = d, !.scode = sc] :
        T \in {1, 7}, d \in {0, 1, 2, 9, 255}, sc \in {0, 5}}
    \cup {[RespOk(<<0, 0, 0, 2>>) EXCEPT !.code = SSCP_CMD_TRANSCEIVE_APDU]}

ApduLoop ==
    LoopStep({IoOk(64), IoOk(80), [IoOk(16) EXCEPT !.hdr = SSCP_ERR_COMM_RECV_MUTE]},
             ApduResponses)

InitApdu == SessionOpen({DW(0, 1)}, MaxExchanges - 1)

NextApdu == SSCP_TransceiveNFC \/ ApduLoop

SpecApdu == InitApdu /\ [][NextApdu]_vars

(* ------------------------------------------------------------------ *)
(* One SSCP_ExchangeEx, over the length field of the response          *)
(* ------------------------------------------------------------------ *)
\* Values of the length field T around the two ends of what a payload
\* of 64 or of 80 bytes can hold, and the largest.
EnvelopeLens == {0, 5, 6, 7, 21, 22, 23, 65535}

\* Answers that are well formed but for T, signed well or not.
EnvelopeResponses ==
    {[RespOk(<<0, 0, 0, 2>>) EXCEPT !.sz = sz, !.T = T, !.pad = PadOf(sz, T),
                                     !.sigOk = so] :
        sz \in {64, 80}, T \in EnvelopeLens, so \in BOOLEAN}

EnvelopeBegin == BeginStep({7}, {3}, {"ok"}, ExchangeMode)

EnvelopeLoop == LoopStep({IoOk(64), IoOk(80)}, EnvelopeResponses)

NextEnvelope == EnvelopeBegin \/ EnvelopeLoop

SpecEnvelope == InitExchange /\ [][NextEnvelope]_vars

(* ------------------------------------------------------------------ *)
(* One SSCP_ExchangeEx, with the driver calls of each attempt          *)
(* ------------------------------------------------------------------ *)
PhasesBegin == BeginStep({7}, {3}, {"ok"}, ExchangeMode)

PhasesLoop == LoopCore(IoOpen, SomeResponses, TRUE)

NextPhases == PhasesBegin \/ PhasesLoop

SpecPhases == InitExchange /\ [][NextPhases]_vars

(* ------------------------------------------------------------------ *)
(* SSCP_ExchangeEx, over the caller's response buffer                  *)
(* ------------------------------------------------------------------ *)
\* The caller's output arguments: none, a buffer of 4 bytes, one of 8.
OverflowBufs ==
    {[hasBuf |-> FALSE, maxSz |-> 0], [hasBuf |-> TRUE, maxSz |-> 4],
     [hasBuf |-> TRUE, maxSz |-> 8]}

OverflowBegin ==
    /\ BeginCore({7}, {3}, OverflowBufs, {"ok"}, ExchangeMode)
    /\ wrapped' = NoWrapped
    /\ UNCHANGED guard

OverflowLoop == LoopStep({IoOk(64), IoOk(80)}, AllResponses)

NextOverflow == OverflowBegin \/ OverflowLoop

SpecOverflow == InitExchange /\ [][NextOverflow]_vars

(* ------------------------------------------------------------------ *)
(* SSCP_Authenticate, over what the reader answers                     *)
(* ------------------------------------------------------------------ *)
\* RndA drawn, and the RndA a round-1 response was made for.
HandshakeRnd == {1, 2}

\* Lengths of the round-1 payload: the first 40 bytes alone, one byte
\* short, the 72 bytes, and 8 bytes more.
Round1Sizes == {40, 71, 72, 80}

\* Round-2 replies: the ACK, one byte, nothing, and more than response[]
\* holds.
Round2Replies ==
    {<<0, 0, 0, 0, 0, 8>>, <<255>>, <<>>, [i \in 1..(AuthResponseSz + 1) |-> 0]}

\* response[] starts as zeros and is compared from offset 40 to 71
\* whatever was received: a payload of 71 bytes compares equal when the
\* last byte of the HMAC is 00, one of 40 bytes only if the whole HMAC
\* were zeros, which no key gives.
HandshakeEnvs(open) ==
    IF open
    THEN {[AuthEnvOk(K, a, 1) EXCEPT !.rndAp = ap, !.io1 = IoOk(n), !.hBok = ok,
                                      !.reply2 = r, !.io2 = IoOk(Len(r))] :
             K \in AuthKeys, a \in HandshakeRnd, ap \in HandshakeRnd,
             n \in Round1Sizes, ok \in BOOLEAN, r \in Round2Replies}
         \ {e \in {[AuthEnvOk(K, a, 1) EXCEPT !.rndAp = ap, !.io1 = IoOk(40),
                                              !.reply2 = r, !.io2 = IoOk(Len(r))] :
                      K \in AuthKeys, a \in HandshakeRnd, ap \in HandshakeRnd,
                      r \in Round2Replies} : TRUE}
    ELSE {[AuthEnvOk(K, a, 1) EXCEPT !.io1 = io] :
             K \in AuthKeys, a \in HandshakeRnd, io \in IoClosed}

HandshakeAuthenticate == AuthenticateStep(HandshakeEnvs(commOpen))

NextHandshake == SSCP_Open \/ HandshakeAuthenticate

SpecHandshake == Init /\ [][NextHandshake]_vars

(* ------------------------------------------------------------------ *)
(* The guard time, called on its own                                   *)
(* ------------------------------------------------------------------ *)
\* guardTimeMs: none, the scans' interval, more than a second.
GuardDurations == {0, SSCP_SCAN_GLOBAL_GUARD_TIME, 1500}

\* Calls of SSCP_GuardTime followed.
MaxGuards == 3

\* What is noted of a call: its argument, whether a guard was running
\* when it was made, whether it slept, and the sleeps of the
\* SSCP_WaitGuardTime calls made since the last SSCP_GuardTime.
GateCall(name, d, before, after, sleeps) ==
    [name |-> name, d |-> d, running |-> before.running,
     slept |-> after # before.now,
     sleeps |-> sleeps + (IF after # before.now THEN 1 ELSE 0)]

GateRest ==
    UNCHANGED <<commOpen, address, counter, sessionKeys, stats, pc, call, command,
                retry, lastCall, lastRc, out, preCounter, attempts, response, checks,
                accepted, replayed, nExchanges, selftest, handshake, raw, blocks>>

SSCP_GuardTime_Call ==
    /\ guard.scans < MaxGuards
    /\ guard.now[1] <= MaxSeconds
    /\ \E d \in GuardDurations :
          /\ guard' = SSCP_GuardTime(guard, d)
          /\ wrapped' = GateCall("GuardTime", d, guard, guard'.sent, 0)
    /\ GateRest

SSCP_WaitGuardTime_Call ==
    /\ guard.now[1] <= MaxSeconds
    /\ guard' = SSCP_WaitGuardTime(guard)
    /\ wrapped' = GateCall("WaitGuardTime", 0, guard, guard'.now,
                           IF wrapped.name = "WaitGuardTime" THEN wrapped.sleeps ELSE 0)
    /\ GateRest

NextGate ==
    \/ SSCP_GuardTime_Call
    \/ SSCP_WaitGuardTime_Call
    \/ Tick

SpecGate == InitGuard /\ [][NextGate]_vars

(* ------------------------------------------------------------------ *)
(* Properties                                                          *)
(* ------------------------------------------------------------------ *)
\* SSCP_ExchangeEx has returned, and nothing was called since.
Returned == pc = "idle" /\ lastCall = "Exchange"

\* The validation of the response received went as far as the step.
Reached(step) == \E i \in 1..Len(checks) : checks[i] = step

LastAttempt == attempts[Len(attempts)]

Timeouts == {SSCP_ERR_COMM_RECV_MUTE, SSCP_ERR_COMM_RECV_STOPPED}

AllTimedOut == attempts # <<>> /\ \A i \in 1..Len(attempts) : attempts[i].rc \in Timeouts

\* The counter field of the response received, as a DWORD.
ReceivedCounter == <<response.ctr[1] * 256 + response.ctr[2],
                     response.ctr[3] * 256 + response.ctr[4]>>

\* C1: while the context holds no session keys (never authenticated), no
\* SSCP_Exchange puts a secure frame on the wire.
C1_NoFrameWithoutKeys ==
    sessionKeys = ZeroKeys =>
        \A i \in 1..Len(attempts) :
            ~(attempts[i].sent = 3 /\ attempts[i].frame.proto = SSCP_PROTOCOL_SECURE)

C1_Witness ==
    /\ sessionKeys = ZeroKeys
    /\ stats.sessionCount = 0
    /\ Returned
    /\ attempts # <<>>
    /\ attempts[1].sent = 3
    /\ attempts[1].frame.proto = SSCP_PROTOCOL_SECURE
    /\ attempts[1].frame.payload.signKey = ZeroKeys.SignAB
    /\ attempts[1].frame.payload.cipherKey = ZeroKeys.CipherAB

\* C2: once a response is deciphered, a counter field t > ctx->counter
\* passes the counter check and leaves ctx->counter = t + 1 (on 32 bits);
\* t <= ctx->counter returns WRONG_RESPONSE_COUNTER at that check and
\* leaves ctx->counter as it was.
C2_CounterRule ==
    (Returned /\ Reached("counter")) =>
        IF DWGt(ReceivedCounter, preCounter)
        THEN /\ Reached("opcode")
             /\ lastRc # SSCP_ERR_WRONG_RESPONSE_COUNTER
             /\ counter = DWInc(ReceivedCounter)
        ELSE /\ ~Reached("opcode")
             /\ lastRc = SSCP_ERR_WRONG_RESPONSE_COUNTER
             /\ counter = preCounter

C2_Witness ==
    /\ Returned
    /\ Reached("counter")
    /\ ReceivedCounter = preCounter
    /\ lastRc = SSCP_ERR_WRONG_RESPONSE_COUNTER
    /\ counter = preCounter

\* C3: after an SSCP_Exchange that returns SSCP_SUCCESS, ctx->counter is
\* strictly greater than it was when the call was entered.
C3_StrictlyGreater ==
    (Returned /\ attempts # <<>> /\ lastRc = SSCP_SUCCESS) => DWGt(counter, preCounter)

C3_Witness ==
    /\ Returned
    /\ lastRc = SSCP_SUCCESS
    /\ preCounter = DW(0, 1)
    /\ response.ctr = <<255, 255, 255, 255>>
    /\ counter = DW(0, 0)

\* C4: when SSCP_Exchange returns a validation error for the reply
\* (command, format, signature, type), ctx->counter is what it was when
\* the call was entered.
C4_CounterKeptOnValidationError ==
    (Returned /\ lastRc \in {SSCP_ERR_WRONG_RESPONSE_COMMAND, SSCP_ERR_WRONG_RESPONSE_FORMAT,
                             SSCP_ERR_WRONG_RESPONSE_SIGNATURE, SSCP_ERR_WRONG_RESPONSE_TYPE})
        => counter = preCounter

C4_Witness ==
    /\ Returned
    /\ lastRc = SSCP_ERR_WRONG_RESPONSE_SIGNATURE
    /\ preCounter = DW(0, 1)
    /\ response.ctr = <<0, 0, 0, 2>>
    /\ counter = DW(0, 3)

\* C5: a response byte-identical to one already accepted in the session,
\* once deciphered, is rejected with WRONG_RESPONSE_COUNTER.
C5_ReplayRejected ==
    (Returned /\ replayed /\ Reached("counter")) => lastRc = SSCP_ERR_WRONG_RESPONSE_COUNTER

C5_Witness ==
    /\ Returned
    /\ replayed
    /\ response \in accepted
    /\ response.ctr = <<255, 255, 255, 255>>
    /\ preCounter = DW(0, 0)
    /\ lastRc = SSCP_SUCCESS

\* The first check a deciphered response fails, in the order counter,
\* opcode, length envelope, HMAC, status type.
FirstFailing ==
    IF ~DWGt(ReceivedCounter, preCounter) THEN "counter"
    ELSE IF response.code # call.code THEN "opcode"
    ELSE IF response.sz - 16 < 42 + response.T \/ response.sz - 16 > 58 + response.T
    THEN "envelope"
    ELSE IF ~response.sigOk THEN "hmac"
    ELSE IF response.stype # call.type THEN "type"
    ELSE "none"

ErrorOf(step) ==
    CASE step = "counter" -> SSCP_ERR_WRONG_RESPONSE_COUNTER
      [] step = "opcode" -> SSCP_ERR_WRONG_RESPONSE_COMMAND
      [] step = "envelope" -> SSCP_ERR_WRONG_RESPONSE_FORMAT
      [] step = "hmac" -> SSCP_ERR_WRONG_RESPONSE_SIGNATURE
      [] step = "type" -> SSCP_ERR_WRONG_RESPONSE_TYPE

\* C6: a deciphered response that fails one or several of the checks
\* counter, opcode, length envelope, HMAC, status type is answered with
\* the error of the first of them in this order, and the validation ends
\* at that check (the primitives themselves not failing).
C6_FirstFailingCheck ==
    (Returned /\ Reached("counter") /\ FirstFailing # "none"
              /\ lastRc # SSCP_ERR_INTERNAL_FAILURE) =>
        /\ lastRc = ErrorOf(FirstFailing)
        /\ checks[Len(checks)] = FirstFailing

C6_Witness ==
    /\ Returned
    /\ Reached("counter")
    /\ DWGt(ReceivedCounter, preCounter)
    /\ response.code # call.code
    /\ ~response.sigOk
    /\ response.stype # call.type
    /\ lastRc = SSCP_ERR_WRONG_RESPONSE_COMMAND
    /\ checks[Len(checks)] = "opcode"

\* C7: a response that passes the five checks and carries a nonzero
\* status code makes SSCP_Exchange return that status code.
C7_StatusReturned ==
    (Returned /\ Reached("size") /\ response.scode # 0) => lastRc = response.scode

C7_Witness ==
    /\ Returned
    /\ Reached("size")
    /\ response.scode = 5
    /\ response.T = 7
    /\ call.maxSz = 0
    /\ lastRc = SSCP_ERR_OUTPUT_BUFFER_OVERFLOW

\* C8: every attempt but the last ended in RECV_MUTE or RECV_STOPPED; an
\* attempt that fails otherwise is the last one and its error is returned
\* as it is, the counter untouched; the attempt whose response was
\* validated is the last one, whatever the validation says.
C8_RetryOnTimeoutOnly ==
    /\ \A i \in 1..(Len(attempts) - 1) : attempts[i].rc \in Timeouts
    /\ pc = "loop" => \A i \in 1..Len(attempts) : attempts[i].rc \in Timeouts
    /\ (Returned /\ attempts # <<>> /\ LastAttempt.rc # SSCP_SUCCESS) =>
           /\ lastRc = LastAttempt.rc
           /\ counter = preCounter
           /\ checks = <<>>
    /\ (Returned /\ checks # <<>>) => LastAttempt.rc = SSCP_SUCCESS

C8_Witness ==
    /\ Returned
    /\ Len(attempts) = 2
    /\ attempts[1].rc = SSCP_ERR_COMM_RECV_MUTE
    /\ attempts[2].rc = SSCP_ERR_WRONG_RESPONSE_CRC
    /\ lastRc = SSCP_ERR_WRONG_RESPONSE_CRC

\* The loop makes at most SSCP_MAX_TIMEOUT_RETRY attempts, and when all of
\* them time out the error of the last one is returned.
C9_LoopBounded ==
    /\ Len(attempts) <= SSCP_MAX_TIMEOUT_RETRY
    /\ pc = "loop" => retry = Len(attempts) /\ retry < SSCP_MAX_TIMEOUT_RETRY
    /\ (Returned /\ AllTimedOut) =>
           /\ lastRc = LastAttempt.rc
           /\ counter = preCounter

C9_LoopLeft == (pc = "loop") ~> (pc = "idle")

\* C9: the retry loop is always left; it makes at most
\* SSCP_MAX_TIMEOUT_RETRY attempts, and when all of them end in RECV_MUTE
\* or RECV_STOPPED the call returns the error of the last one with
\* ctx->counter as it was.
C9_Terminates == []C9_LoopBounded /\ C9_LoopLeft

C9_Witness ==
    /\ Returned
    /\ Len(attempts) = SSCP_MAX_TIMEOUT_RETRY
    /\ AllTimedOut
    /\ attempts[1].rc = SSCP_ERR_COMM_RECV_MUTE
    /\ lastRc = SSCP_ERR_COMM_RECV_STOPPED
    /\ counter = preCounter

\* C10, as stated: an exchange whose attempts all time out fails after
\* SSCP_MAX_TIMEOUT_RETRY re-sends, that is SSCP_MAX_TIMEOUT_RETRY + 1
\* attempts.
C10_RetriesAfterFirst ==
    (Returned /\ AllTimedOut) => Len(attempts) = SSCP_MAX_TIMEOUT_RETRY + 1

\* C10, as the loop runs: an exchange whose attempts all time out fails
\* after SSCP_MAX_TIMEOUT_RETRY attempts in all, the first one and
\* SSCP_MAX_TIMEOUT_RETRY - 1 re-sends, and not before.
C10_AttemptsInAll ==
    /\ (Returned /\ AllTimedOut) => Len(attempts) = SSCP_MAX_TIMEOUT_RETRY
    /\ (pc = "loop" /\ attempts # <<>>) =>
           /\ AllTimedOut
           /\ Len(attempts) <= SSCP_MAX_TIMEOUT_RETRY - 1

C10_Witness ==
    /\ Returned
    /\ AllTimedOut
    /\ Len(attempts) = SSCP_MAX_TIMEOUT_RETRY
    /\ lastRc = SSCP_ERR_COMM_RECV_MUTE

\* C11: all the attempts of one SSCP_Exchange hand the same transport
\* payload (same ciphered command, same IV, same embedded counter) to the
\* port, under SSCP_PROTOCOL_SECURE and for ctx->address, and ctx->counter
\* is not touched while the loop runs.
C11_SameFrameResent ==
    /\ \A i \in 1..Len(attempts) :
           /\ attempts[i].frame = attempts[1].frame
           /\ attempts[i].frame.proto = SSCP_PROTOCOL_SECURE
           /\ attempts[i].frame.addr = address
           /\ attempts[i].frame.payload.ctr = CounterBytes(preCounter)
           /\ attempts[i].frame.payload.iv \in IVs
    /\ pc = "loop" =>
           /\ counter = preCounter
           /\ attempts # <<>> => command = attempts[1].frame.payload

C11_Witness ==
    /\ Returned
    /\ Len(attempts) = SSCP_MAX_TIMEOUT_RETRY
    /\ \A i \in 1..Len(attempts) : attempts[i].sent = 3
    /\ attempts[Len(attempts)].frame = attempts[1].frame
    /\ attempts[1].rc = SSCP_ERR_COMM_RECV_MUTE
    /\ LastAttempt.rc = SSCP_SUCCESS

\* C12: an SSCP_Exchange entered with errorCount = 0 leaves errorCount at
\* the number of timed-out attempts that came before the attempt that
\* succeeded, and at 0 when the first attempt succeeds or when the
\* transport fails.
C12_CountsEachTimeout ==
    (Returned /\ attempts # <<>>) =>
        stats.errorCount = IF LastAttempt.rc = SSCP_SUCCESS THEN Len(attempts) - 1 ELSE 0

C12_Witness ==
    /\ Returned
    /\ Len(attempts) = 3
    /\ attempts[1].rc \in Timeouts
    /\ attempts[2].rc \in Timeouts
    /\ attempts[3].rc = SSCP_SUCCESS
    /\ stats.errorCount = 1

\* SSCP_Authenticate has returned, and nothing was called since.
Authenticated == pc = "idle" /\ lastCall = "Authenticate" /\ handshake.called

\* C13: an SSCP_Authenticate that returns SSCP_SUCCESS leaves counter = 1,
\* sessionCount one above its value before the call, whenSession stamped
\* and the four session keys derived from the K, RndA and RndB of this
\* handshake, whatever the counter was before.
C13_SessionInstalled ==
    (Authenticated /\ lastRc = SSCP_SUCCESS) =>
        /\ counter = DW(0, 1)
        /\ stats.sessionCount = handshake.before.stats.sessionCount + 1
        /\ stats.whenSession # 0
        /\ stats.errorCount = handshake.before.stats.errorCount
        /\ sessionKeys =
               SSCP_ComputeSessionKeys(handshake.env.K, handshake.rndA, handshake.rndB)
        /\ \A k \in DOMAIN sessionKeys : sessionKeys[k] # ZeroKeys[k]

C13_Witness ==
    /\ Authenticated
    /\ lastRc = SSCP_SUCCESS
    /\ handshake.before.stats.sessionCount = 1
    /\ handshake.before.counter = DW(0, 3)
    /\ handshake.before.sessionKeys # sessionKeys
    /\ counter = DW(0, 1)
    /\ stats.sessionCount = 2

\* C14: when round 1 has brought a response whose hB differs from the
\* HMAC of its first 40 bytes under the key, SSCP_Authenticate returns
\* WRONG_RESPONSE_SIGNATURE, has sent the round-1 frame only and leaves
\* the keys, the counter and the statistics as they were; a round-2
\* frame is sent only after a round 1 whose hB has compared equal.
C14_SignatureBeforeRound2 ==
    Authenticated =>
        /\ (/\ attempts # <<>>
            /\ attempts[1].rc = SSCP_SUCCESS
            /\ handshake.env.hm1
            /\ ~handshake.env.hBok) =>
               /\ lastRc = SSCP_ERR_WRONG_RESPONSE_SIGNATURE
               /\ Len(attempts) = 1
               /\ attempts[1].frame.payload.round = 1
               /\ sessionKeys = handshake.before.sessionKeys
               /\ counter = handshake.before.counter
               /\ stats = handshake.before.stats
        /\ Len(attempts) = 2 =>
               /\ attempts[1].rc = SSCP_SUCCESS
               /\ handshake.env.hBok
               /\ attempts[2].frame.payload.round = 2
               /\ attempts[2].frame.payload.hA = handshake.env.K

C14_Witness ==
    /\ Authenticated
    /\ Len(attempts) = 1
    /\ attempts[1].rc = SSCP_SUCCESS
    /\ attempts[1].sent = 3
    /\ ~handshake.env.hBok
    /\ handshake.env.K = "default"
    /\ lastRc = SSCP_ERR_WRONG_RESPONSE_SIGNATURE
    /\ sessionKeys = ZeroKeys

\* C15: with SSCP_SELFTEST set, SSCP_Authenticate on an allocated context
\* whose port was never opened calls SSCP_ExchangeRaw not once, and when
\* it returns SSCP_SUCCESS the four session keys are installed and
\* counter = 1.
C15_SelfTestAuthenticate ==
    (Authenticated /\ selftest) =>
        /\ ~commOpen
        /\ attempts = <<>>
        /\ lastRc = SSCP_SUCCESS =>
               /\ sessionKeys = SSCP_ComputeSessionKeys(handshake.env.K, SelfTestRndA,
                                                        SelfTestRndB)
               /\ \A k \in DOMAIN sessionKeys : sessionKeys[k] # ZeroKeys[k]
               /\ counter = DW(0, 1)

C15_Witness ==
    /\ Authenticated
    /\ selftest
    /\ ~commOpen
    /\ handshake.before.sessionKeys = ZeroKeys
    /\ handshake.env.K = "default"
    /\ lastRc = SSCP_SUCCESS
    /\ attempts = <<>>
    /\ counter = DW(0, 1)

\* C16: with SSCP_SELFTEST set and the port never opened, the exchange
\* SSCP_Outputs issues after a successful SSCP_Authenticate returns
\* SSCP_SUCCESS without one SSCP_ExchangeRaw (memory not failing).
C16_SelfTestOutputs ==
    (/\ Returned
     /\ selftest
     /\ ~call.selftest
     /\ sessionKeys # ZeroKeys
     /\ lastRc # SSCP_ERR_OUT_OF_MEMORY) =>
        /\ lastRc = SSCP_SUCCESS
        /\ attempts = <<>>

C16_Witness ==
    /\ Returned
    /\ selftest
    /\ ~commOpen
    /\ ~call.selftest
    /\ nExchanges = 1
    /\ sessionKeys = SSCP_ComputeSessionKeys("default", SelfTestRndA, SelfTestRndB)
    /\ Len(attempts) = 1
    /\ attempts[1].frame.proto = SSCP_PROTOCOL_SECURE
    /\ lastRc = SSCP_ERR_COMM_NOT_OPEN

\* SSCP_ExchangeRaw was called on its own, its writes went through, and
\* the port delivered raw.rx and then nothing.
RawReceived == raw.called /\ raw.sent = 3 /\ raw.io = IoReceiving(raw.rx)

\* The header came whole, with its SOF, declaring a length that fits.
RawHeaderTaken ==
    /\ RawReceived
    /\ Len(raw.rx) >= 5
    /\ raw.rx[1] = 2
    /\ DeclaredLength(raw.rx) <= raw.maxResponseSz

\* C17: SSCP_ExchangeRaw returns COMM_RECV_MUTE only when no byte of the
\* response came; when the port goes mute after the header, or after the
\* header and the payload, it returns COMM_RECV_STOPPED.
C17_MuteOnlyWithoutBytes ==
    raw.called =>
        /\ raw.rc = SSCP_ERR_COMM_RECV_MUTE => (RawReceived /\ raw.rx = <<>>)
        /\ (RawHeaderTaken /\ Len(raw.rx) < 7 + DeclaredLength(raw.rx)) =>
               raw.rc = SSCP_ERR_COMM_RECV_STOPPED

\* The port went mute right after the header and the whole payload.
C17_Witness ==
    /\ RawHeaderTaken
    /\ DeclaredLength(raw.rx) = 3
    /\ Len(raw.rx) = 8
    /\ raw.rc = SSCP_ERR_COMM_RECV_STOPPED

\* C18: no frame with more than 4096 payload bytes is written or taken:
\* a longer command gives COMMAND_TOO_LONG before any byte is written, a
\* header declaring more than maxResponseSz gives RESPONSE_TOO_LONG, and
\* the callers pass 4096 at most.
C18_PayloadBounded ==
    /\ AuthResponseSz <= 4096
    /\ ExchangeEx_maxResponseSz <= 4096
    /\ raw.called =>
        /\ Len(raw.command) > 4096 =>
               (raw.rc = SSCP_ERR_COMMAND_TOO_LONG /\ raw.sent = 0)
        /\ raw.sent > 0 => Len(raw.command) <= 4096
        /\ (/\ RawReceived
            /\ Len(raw.rx) >= 5
            /\ raw.rx[1] = 2
            /\ DeclaredLength(raw.rx) > raw.maxResponseSz) =>
               (raw.rc = SSCP_ERR_RESPONSE_TOO_LONG /\ raw.actResponseSz = -1)
        /\ raw.rc = SSCP_SUCCESS =>
               (raw.actResponseSz <= raw.maxResponseSz /\ Len(raw.response) <= 4096)

\* A command of 4097 bytes was handed over while the port was open.
C18_Witness ==
    /\ raw.called
    /\ commOpen
    /\ Len(raw.command) = 4097
    /\ raw.rc = SSCP_ERR_COMMAND_TOO_LONG
    /\ raw.sent = 0

\* C19: a response whose first byte is not 0x02 gives
\* WRONG_RESPONSE_COMMAND, a response whose two CRC bytes are not the CRC of
\* the received LEN, ADDR, PROTO and payload gives WRONG_RESPONSE_CRC, and
\* in both cases the actual response size is not written.
C19_SofAndCrcChecked ==
    /\ (RawReceived /\ Len(raw.rx) >= 5 /\ raw.rx[1] # 2) =>
           (raw.rc = SSCP_ERR_WRONG_RESPONSE_COMMAND /\ raw.actResponseSz = -1)
    /\ (RawHeaderTaken /\ Len(raw.rx) >= 7 + DeclaredLength(raw.rx)) =>
           LET n == DeclaredLength(raw.rx)
               crcA == SSCP_SCR16(SubSeq(raw.rx, 2, 5), SubSeq(raw.rx, 6, 5 + n))
               crcB == SubSeq(raw.rx, 6 + n, 7 + n)
           IN  IF crcA[1] = crcB[1] /\ crcA[2] = crcB[2]
               THEN raw.rc = SSCP_SUCCESS /\ raw.actResponseSz = n
               ELSE raw.rc = SSCP_ERR_WRONG_RESPONSE_CRC /\ raw.actResponseSz = -1

\* The frame came back whole, with the second CRC byte changed.
C19_Witness ==
    /\ RawHeaderTaken
    /\ raw.rc = SSCP_ERR_WRONG_RESPONSE_CRC
    /\ raw.rx = Corrupted(FrameBytes(raw.address, raw.protocol, raw.command),
                          7 + Len(raw.command))

\* C20: when the port returns byte for byte the frame SSCP_ExchangeRaw
\* wrote, for a payload no longer than 4096 and maxResponseSz, the call
\* returns SUCCESS with the command payload and its length as response.
C20_RoundTrip ==
    (/\ RawReceived
     /\ Len(raw.command) <= 4096
     /\ Len(raw.command) <= raw.maxResponseSz
     /\ raw.rx = FrameBytes(raw.address, raw.protocol, raw.command)) =>
        /\ raw.rc = SSCP_SUCCESS
        /\ raw.response = raw.command
        /\ raw.actResponseSz = Len(raw.command)

\* The long command came back: both LEN bytes were needed.
C20_Witness ==
    /\ RawReceived
    /\ Len(raw.command) = LongCommandSz
    /\ raw.rx = FrameBytes(raw.address, raw.protocol, raw.command)
    /\ raw.rc = SSCP_SUCCESS
    /\ raw.response = raw.command

\* C21: for every commandDataSz L in 0..4096, SSCP_ExchangeEx transmits a
\* payload of ((10 + L + 32 + 15) div 16) * 16 + 16 bytes.
C21_TransmitsPaddedLength ==
    (call.dataSz <= 4096 /\ Len(attempts) > 0) =>
        /\ attempts[1].rc # SSCP_ERR_COMMAND_TOO_LONG
        /\ \A i \in 1..Len(attempts) :
              attempts[i].sent = 3 =>
                 attempts[i].frame.payload.sz
                    = ((10 + call.dataSz + 32 + 15) \div 16) * 16 + 16

\* 4096 bytes of data were accepted and ciphered, and nothing was written.
C21_Witness ==
    /\ Returned
    /\ call.dataSz = 4096
    /\ Len(attempts) = 1
    /\ attempts[1].rc = SSCP_ERR_COMMAND_TOO_LONG
    /\ attempts[1].sent = 0
    /\ lastRc = SSCP_ERR_COMMAND_TOO_LONG

\* The longest data that reaches the port.
C21_LongestSent ==
    /\ Returned
    /\ call.dataSz = 4038
    /\ Len(attempts) > 0
    /\ attempts[1].sent = 3
    /\ attempts[1].frame.payload.sz = 4096

\* The answer received is v with the bit f changed, and v as it was
\* would have been accepted.
FlippedFrom(v, f) ==
    /\ Returned
    /\ Reached("length")
    /\ response = Flip(v, f)
    /\ Validate(v, preCounter, call, TRUE, TRUE).rc = SSCP_SUCCESS

\* C22: no answer that differs by one bit, anywhere in the deciphered
\* buffer, from one that would be accepted makes SSCP_ExchangeEx return
\* SSCP_SUCCESS.
C22_BitFlipRejected ==
    \A v \in GenuineResponses :
        \A f \in Flips(v) : FlippedFrom(v, f) => lastRc # SSCP_SUCCESS

\* The first byte after the HMAC came as 0x81 for 0x80, and the answer
\* was accepted.
C22_Witness ==
    /\ FlippedFrom(RespOk(<<0, 0, 0, 2>>), [field |-> "pad", byte |-> 1, bit |-> 0])
    /\ response.pad[1] = 129
    /\ lastRc = SSCP_SUCCESS
    /\ counter = DW(0, 3)

\* A changed bit in the counter, the opcode, the length, the data, the
\* status or the HMAC is rejected.
C22_SignedBytesProtected ==
    \A v \in GenuineResponses :
        \A f \in Flips(v) :
            (FlippedFrom(v, f) /\ f.field # "pad") => lastRc < 0

\* C23: a scan called while the guard of the scan before it runs does
\* not go on to its command before that guard's duration has passed
\* since it was armed.
C23_ScanWaitsForGuard ==
    guard.waited => ~TimeLt(guard.sent, TimeAfter(guard.armed, guard.due))

\* The second scan came one millisecond after the first, and went on at
\* once.
C23_Witness ==
    /\ guard.scans = 2
    /\ guard.waited
    /\ guard.armed = <<0, 0>>
    /\ guard.due = SSCP_SCAN_GLOBAL_GUARD_TIME
    /\ guard.sent = <<0, 1000000>>
    /\ pc = "loop"

\* The SSCP_Exchange of a SSCP_TransceiveNFC has returned.
Transceived == pc = "idle" /\ wrapped.name = "TransceiveNFC" /\ wrapped.heap # "null"

\* C24: SSCP_TransceiveNFC returns what its first data byte stands for:
\* 0x00 success with the bytes that follow as response APDU, 0x01
\* NFC_CARD_MUTE_OR_REMOVED, 0x02 NFC_CARD_COMM_ERROR, another value
\* UNSUPPORTED_RESPONSE_STATUS, no data WRONG_RESPONSE_LENGTH, and what
\* SSCP_Exchange returned when that is not success.
C24_FirstByteMapped ==
    Transceived =>
        /\ wrapped.state = "returned"
        /\ wrapped.rc =
              IF lastRc # SSCP_SUCCESS THEN lastRc
              ELSE IF response.T = 0 THEN SSCP_ERR_WRONG_RESPONSE_LENGTH
              ELSE IF response.d0 = 0 THEN SSCP_SUCCESS
              ELSE IF response.d0 = 1 THEN SSCP_ERR_NFC_CARD_MUTE_OR_REMOVED
              ELSE IF response.d0 = 2 THEN SSCP_ERR_NFC_CARD_COMM_ERROR
              ELSE SSCP_ERR_UNSUPPORTED_RESPONSE_STATUS
        /\ (lastRc = SSCP_SUCCESS /\ response.T > 0 /\ response.d0 = 0) =>
               (wrapped.actResponseApduSz = response.T - 1
                /\ wrapped.copied = response.T - 1)

\* The exchange succeeded with 01 as data, and the process stopped in
\* free(commandFull) with nothing returned.
C24_Witness ==
    /\ Transceived
    /\ wrapped.commandApduSz = 5
    /\ lastRc = SSCP_SUCCESS
    /\ response.T = 1
    /\ response.d0 = 1
    /\ wrapped.state = "aborted"

\* Six bytes of APDU for a buffer of two.
C24_ApduTooLong ==
    /\ Transceived
    /\ lastRc = SSCP_SUCCESS
    /\ response.T = 7
    /\ response.d0 = 0
    /\ wrapped.maxResponseApduSz = 2
    /\ wrapped.rc = SSCP_ERR_OUTPUT_BUFFER_OVERFLOW
    /\ wrapped.actResponseApduSz = 6

\* When SSCP_TransceiveNFC returns, and the APDU fits where there is one,
\* the value returned is the one the first byte stands for.
C24_MappedWhenReturned ==
    (Transceived /\ wrapped.state = "returned") =>
        wrapped.rc =
           IF lastRc # SSCP_SUCCESS THEN lastRc
           ELSE IF response.T = 0 THEN SSCP_ERR_WRONG_RESPONSE_LENGTH
           ELSE IF response.d0 = 0 /\ response.T - 1 > wrapped.maxResponseApduSz
           THEN SSCP_ERR_OUTPUT_BUFFER_OVERFLOW
           ELSE IF response.d0 = 0 THEN SSCP_SUCCESS
           ELSE IF response.d0 = 1 THEN SSCP_ERR_NFC_CARD_MUTE_OR_REMOVED
           ELSE IF response.d0 = 2 THEN SSCP_ERR_NFC_CARD_COMM_ERROR
           ELSE SSCP_ERR_UNSUPPORTED_RESPONSE_STATUS

\* The call went through every check and returned from the status byte.
StatusReached == checks # <<>> /\ checks[Len(checks)] = "status"

\* C25: SSCP_Exchange returns 0, a negative value, or a value of 1..255
\* that is the status byte of a response which passed every check; a
\* call that fails in the library itself returns a negative value.
C25_ReturnRanges ==
    Returned =>
        /\ lastRc = SSCP_SUCCESS \/ lastRc < 0 \/ lastRc \in 1..255
        /\ StatusReached => lastRc = response.scode
        /\ ~StatusReached => lastRc < 0

\* Status byte FF is returned as 255; another call failed in the library
\* before anything was sent.
C25_Witness ==
    /\ Returned
    /\ StatusReached
    /\ response.scode = 255
    /\ lastRc = 255

C25_LocalFailure ==
    /\ Returned
    /\ attempts = <<>>
    /\ lastRc = SSCP_ERR_COMMAND_TOO_LONG

\* The driver calls of one SSCP_ExchangeRaw keep the two phases: the
\* first call sets (FIRST_TIMEOUT, NEXT_TIMEOUT), and nothing follows it
\* when it fails; the frame is written and the header read under these;
\* the payload and the CRC are read only after a header read that
\* succeeded and a call that set (NEXT_TIMEOUT, NEXT_TIMEOUT) and
\* succeeded; the error of a failed call is the value returned.
TwoPhases(a) ==
    LET p == a.ports
        IsSet(k, first) ==
            /\ p[k].fn = "SetTimeouts"
            /\ p[k].arg = <<first, SSCP_RESPONSE_NEXT_TIMEOUT>>
    IN  /\ p # <<>> => IsSet(1, SSCP_RESPONSE_FIRST_TIMEOUT)
        /\ \A k \in 1..Len(p) :
              /\ (k < Len(p)) => p[k].rc = SSCP_SUCCESS
              /\ (p[k].fn = "SetTimeouts" /\ p[k].rc # SSCP_SUCCESS) =>
                     (k = Len(p) /\ a.rc = p[k].rc)
              /\ (p[k].fn = "Send" \/ (p[k].fn = "Recv" /\ p[k].arg = "header")) =>
                     \A j \in 1..(k - 1) :
                        p[j].fn = "SetTimeouts" => IsSet(j, SSCP_RESPONSE_FIRST_TIMEOUT)
              /\ (p[k].fn = "Recv" /\ p[k].arg = "response") =>
                     /\ k > 2
                     /\ IsSet(k - 1, SSCP_RESPONSE_NEXT_TIMEOUT)
                     /\ p[k - 2].fn = "Recv" /\ p[k - 2].arg = "header"
              /\ (p[k].fn = "Recv" /\ p[k].arg = "crcB") =>
                     (k > 1 /\ p[k - 1].fn = "Recv" /\ p[k - 1].arg = "response")
        /\ a.sent = Cardinality({k \in 1..Len(p) : p[k].fn = "Send" /\ p[k].rc = SSCP_SUCCESS})
        /\ (a.sent > 0 \/ Len(p) > 1) => p[1].rc = SSCP_SUCCESS

\* C26: every SSCP_ExchangeRaw of an exchange, the retries included, sets
\* the timeouts to (FIRST_TIMEOUT, NEXT_TIMEOUT) before it writes the
\* frame and reads the header, and to (NEXT_TIMEOUT, NEXT_TIMEOUT) after
\* the header is checked and before it reads the payload and the CRC; when
\* setting the timeouts fails the call returns that error, with nothing
\* sent in the first phase and no payload read in the second.
C26_TwoPhaseTimeouts ==
    \A i \in 1..Len(attempts) : TwoPhases(attempts[i])

\* Two attempts timed out on the header, and in the third the second
\* SSCP_SerialSetTimeouts failed.
C26_Witness ==
    /\ Returned
    /\ Len(attempts) = 3
    /\ attempts[1].rc = SSCP_ERR_COMM_RECV_MUTE
    /\ Len(attempts[3].ports) = 6
    /\ attempts[3].ports[6].rc = SSCP_ERR_COMM_CONTROL_FAILED
    /\ lastRc = SSCP_ERR_COMM_CONTROL_FAILED

\* An attempt read the payload and the CRC.
C26_PayloadRead ==
    /\ Returned
    /\ Len(attempts) = 2
    /\ Len(attempts[2].ports) = 8
    /\ lastRc = SSCP_SUCCESS

\* CRC-16/CCITT-FALSE as the division it is: the message bits enter one
\* at a time, most significant first, into a 16-bit register that starts
\* at 0xFFFF; a 1 leaving the register against the entering bit folds
\* the polynomial 0x1021 in.
CcittBit(reg, bit) ==
    LET shifted == (reg * 2) % 65536
    IN  IF (reg \div 32768) # bit THEN Xor(shifted, 4129) ELSE shifted

RECURSIVE CcittBits(_, _, _)
\* Bits n-1 down to 0 of one byte.
CcittBits(reg, byte, n) ==
    IF n = 0 THEN reg
    ELSE CcittBits(CcittBit(reg, (byte \div (2 ^ (n - 1))) % 2), byte, n - 1)

RECURSIVE CcittRun(_, _, _, _)
CcittRun(reg, bytes, i, last) ==
    IF reg > 65535 \/ i > last THEN reg
    ELSE CcittRun(CcittBits(reg, bytes[i], 8), bytes, i + 1, last)

RECURSIVE CcittFold(_, _, _)
CcittFold(reg, bytes, i) ==
    IF reg > 65535 \/ i > Len(bytes) THEN reg
    ELSE LET last == IF i + 15 < Len(bytes) THEN i + 15 ELSE Len(bytes)
         IN  CcittFold(CcittRun(reg, bytes, i, last), bytes, last + 1)

\* The register after the bytes given, high byte first.
CcittFalse(bytes) ==
    LET reg == CcittFold(65535, bytes, 1) IN <<reg \div 256, reg % 256>>

\* The bytes the CRC of a frame covers: LEN(2), ADDR, PROTO, payload.
Covered(addr, proto, payload) ==
    <<(Len(payload) \div 256) % 256, Len(payload) % 256, addr, proto>> \o payload

\* C27: the CRC the codec computes over LEN(2), ADDR, PROTO and the
\* payload is CRC-16/CCITT-FALSE of these bytes, high byte first: for
\* the frame it writes, and for the frame it accepts or rejects on the
\* CRC received; and over "123456789" it is 29B1.
C27_CrcIsCcittFalse ==
    /\ SSCP_SCR16(<<>>, <<49, 50, 51, 52, 53, 54, 55, 56, 57>>) = <<41, 177>>
    /\ (raw.called /\ raw.sent = 3) =>
           SSCP_SCR16(LengthBytes(Len(raw.command)) \o <<raw.address, raw.protocol>>,
                      raw.command)
             = CcittFalse(Covered(raw.address, raw.protocol, raw.command))
    /\ (RawHeaderTaken /\ Len(raw.rx) >= 7 + DeclaredLength(raw.rx)) =>
           LET n == DeclaredLength(raw.rx)
               good == SubSeq(raw.rx, 6 + n, 7 + n)
                         = CcittFalse(SubSeq(raw.rx, 2, 5 + n))
           IN  /\ good => raw.rc = SSCP_SUCCESS
               /\ ~good => raw.rc = SSCP_ERR_WRONG_RESPONSE_CRC

\* The long command, whose bytes run over 0x80, was written and came
\* back, and its CRC has the top bit set.
C27_Witness ==
    /\ RawReceived
    /\ Len(raw.command) = LongCommandSz
    /\ \E k \in 1..Len(raw.command) : raw.command[k] >= 128
    /\ raw.rx = FrameBytes(raw.address, raw.protocol, raw.command)
    /\ raw.rx[Len(raw.rx) - 1] >= 128
    /\ raw.rc = SSCP_SUCCESS

\* The decrypted length D of the response in hand, and the first offset
\* past the bytes read for data, status and HMAC.
DecryptedLen == response.sz - 16
ReadEnd == 8 + response.T + 2 + 32

C28_Longest ==
    /\ Returned
    /\ response.T = 6
    /\ DecryptedLen = 64
    /\ Reached("hmac")

\* One byte short (T = 7, D = 48) and one byte over (T = 5, D = 64).
C28_OneShort ==
    /\ Returned
    /\ response.T = 7
    /\ DecryptedLen = 48
    /\ lastRc = SSCP_ERR_WRONG_RESPONSE_FORMAT

C28_OneOver ==
    /\ Returned
    /\ response.T = 5
    /\ DecryptedLen = 64
    /\ lastRc = SSCP_ERR_WRONG_RESPONSE_FORMAT

\* C29: SSCP_Exchange copies the response data to the caller's buffer
\* and stores *actResponseDataSz = T only in a call that returns
\* SSCP_SUCCESS: when it returns an error or a nonzero device status,
\* the buffer and the size are as the caller left them.
C29_OutputsOnlyOnSuccess ==
    (Returned /\ lastRc # SSCP_SUCCESS) => (out.copied = 0 /\ out.actSz = -1)

\* Seven bytes of data and device status 5: the status is returned, and
\* the seven bytes are in the caller's buffer.
C29_Witness ==
    /\ Returned
    /\ call.hasBuf
    /\ response.T = 7
    /\ response.scode = 5
    /\ lastRc = 5
    /\ out.copied = 7
    /\ out.actSz = 7

\* An error returned before the output arguments are reached leaves
\* them alone.
C29_UntouchedBeforeTypeCheck ==
    (Returned /\ ~Reached("size")) => (out.copied = 0 /\ out.actSz = -1)

\* The lengths handed to SSCP_Cipher by the call in hand and to
\* SSCP_Decipher for the response in hand.  The IV of both is
\* BYTE initVector[16].
CipherLength == PaddedSz(call.dataSz)
DecipherLength == response.sz - 16

\* SSCP_Cipher was called: the command was built that far.
CipherCalled == lastCall = "Exchange" /\ (pc = "loop" \/ attempts # <<>>)

\* C30: SSCP_Cipher and SSCP_Decipher are given a length that is a
\* multiple of 16 and not zero, for every commandDataSz and for every
\* response payload that passes the length check (16 bytes at least, a
\* multiple of 16).
C30_AesLengths ==
    /\ CipherCalled => (CipherLength > 0 /\ CipherLength % 16 = 0)
    /\ (Returned /\ Reached("decipher")) =>
           (DecipherLength > 0 /\ DecipherLength % 16 = 0)

\* A payload of 16 bytes, an IV and nothing else, passed the length
\* check and SSCP_Decipher was called on no bytes at all.
C30_Witness ==
    /\ Returned
    /\ response.sz = 16
    /\ Reached("decipher")
    /\ DecipherLength = 0

\* The command side alone: what is enciphered is a multiple of 16, 48
\* bytes at least, and the payload written is that and the IV.
C30_CipherLengthsHold ==
    /\ CipherCalled => (CipherLength >= 48 /\ CipherLength % 16 = 0)
    /\ pc = "loop" => command.sz = CipherLength + 16
    /\ (Returned /\ Reached("decipher")) => DecipherLength % 16 = 0

\* C31: after SSCP_GuardTime(d) the guard runs with value d and a start
\* read after the wait, if there was one; after SSCP_WaitGuardTime it
\* does not run; a SSCP_WaitGuardTime that finds no guard running does
\* not sleep, and of the SSCP_WaitGuardTime calls that follow one
\* another at most one sleeps.
C31_GuardGate ==
    /\ wrapped.name = "GuardTime" =>
          /\ guard.running
          /\ guard.value = wrapped.d
          /\ guard.start = guard.sent
          /\ ~TimeLt(guard.now, guard.start)
          /\ wrapped.slept => wrapped.running
    /\ wrapped.name = "WaitGuardTime" =>
          /\ ~guard.running
          /\ ~wrapped.running => ~wrapped.slept
          /\ wrapped.sleeps <= 1

\* A guard of 1500 ms was armed, a first SSCP_WaitGuardTime slept and a
\* second one found nothing to wait for.
C31_Witness ==
    /\ wrapped.name = "WaitGuardTime"
    /\ ~wrapped.running
    /\ ~wrapped.slept
    /\ wrapped.sleeps = 1
    /\ guard.value = 1500

\* SSCP_GuardTime slept out the guard before and armed a new one.
C31_Rearmed ==
    /\ wrapped.name = "GuardTime"
    /\ wrapped.slept
    /\ wrapped.d = 0
    /\ guard.scans = 2

\* C32: a frame with SOF, a length that fits and the right CRC is
\* accepted and its payload handed back with SSCP_SUCCESS whatever its
\* address and protocol bytes are: those of the request or others.
C32_AddressAndProtocolNotChecked ==
    (/\ RawHeaderTaken
     /\ Len(raw.rx) = 7 + DeclaredLength(raw.rx)
     /\ raw.rx = FrameBytes(raw.rx[4], raw.rx[5], ResponseBytes(raw.rx))) =>
        /\ raw.rc = SSCP_SUCCESS
        /\ raw.response = ResponseBytes(raw.rx)
        /\ raw.actResponseSz = DeclaredLength(raw.rx)

\* The answer of another address was taken.
C32_Witness ==
    /\ RawReceived
    /\ raw.rx = FrameBytes(raw.address + 1, raw.protocol, <<6, 0>>)
    /\ raw.rc = SSCP_SUCCESS
    /\ raw.response = <<6, 0>>

\* A frame of protocol 0x20 was taken for the answer to one of 0x21.
C32_OtherProtocol ==
    /\ RawReceived
    /\ raw.protocol = SSCP_PROTOCOL_SECURE
    /\ raw.rx = FrameBytes(raw.address, SSCP_PROTOCOL_AUTHENTICATE, <<6, 0>>)
    /\ raw.rc = SSCP_SUCCESS

\* C33: what SSCP_Authenticate returns is the same for every RndA it
\* could have drawn and for every RndA' the round-1 response could
\* carry, the rest of the handshake being the same.
C33_RndANotChecked ==
    Authenticated =>
        \A a \in HandshakeRnd, ap \in HandshakeRnd :
            AuthenticateRc([handshake.env EXCEPT !.rndA = a, !.rndAp = ap],
                           address, selftest) = lastRc

\* A second handshake drew another RndA than the first, was answered
\* with the round-1 response made for the first, and succeeded.
C33_Witness ==
    /\ Authenticated
    /\ lastRc = SSCP_SUCCESS
    /\ stats.sessionCount = 2
    /\ handshake.before.sessionKeys.SignAB.rndA = 1
    /\ handshake.before.sessionKeys.SignAB.K = handshake.env.K
    /\ handshake.rndA = 2
    /\ handshake.env.rndAp = 1
    /\ sessionKeys.SignAB.rndA = 2

\* The handshake came to its second SSCP_ExchangeRaw: the random
\* generator, round 1, both SSCP_HMAC calls and the comparison of hB
\* went through.
ReachedRound2 ==
    /\ Authenticated
    /\ ~selftest
    /\ handshake.env.rng
    /\ Len(attempts) >= 1
    /\ attempts[1].rc = SSCP_SUCCESS
    /\ handshake.env.hm1
    /\ handshake.env.hBok
    /\ handshake.env.hm2

\* The framed codec takes the round-2 reply: SOF, LEN <= 256 and CRC.
CodecTakesRound2 ==
    SSCP_ExchangeRaw(address, SSCP_PROTOCOL_AUTHENTICATE,
                     [round |-> 2, rndB |-> handshake.rndB, hA |-> handshake.env.K], 52,
                     AuthResponseSz, handshake.env.io2).rc = SSCP_SUCCESS

\* C34: once hB is verified, every round-2 reply the framed codec takes
\* gives SSCP_SUCCESS with the session keys, the counter and the
\* statistics of a new session, whatever its bytes and its length
\* (SSCP_ComputeSessionKeys not failing).
C34_Round2NotParsed ==
    (ReachedRound2 /\ CodecTakesRound2 /\ handshake.env.csk) =>
        /\ lastRc = SSCP_SUCCESS
        /\ sessionKeys = SSCP_ComputeSessionKeys(handshake.env.K, handshake.rndA,
                                                 handshake.rndB)
        /\ counter = DW(0, 1)
        /\ stats.sessionCount = handshake.before.stats.sessionCount + 1

\* A handshake succeeded on a round-2 reply of one byte FF.
C34_Witness ==
    /\ ReachedRound2
    /\ CodecTakesRound2
    /\ handshake.env.reply2 = <<255>>
    /\ lastRc = SSCP_SUCCESS
    /\ sessionKeys = SSCP_ComputeSessionKeys(handshake.env.K, handshake.rndA,
                                             handshake.rndB)

\* A handshake succeeded on an empty round-2 reply.
C34_EmptyReply ==
    ReachedRound2 /\ handshake.env.reply2 = <<>> /\ lastRc = SSCP_SUCCESS

\* A round-2 reply longer than response[] is refused by the codec.
C34_TooLongRefused ==
    /\ ReachedRound2
    /\ Len(handshake.env.reply2) > AuthResponseSz
    /\ lastRc = SSCP_ERR_RESPONSE_TOO_LONG

\* The number of payload bytes round 1 received (responseSz).
Round1Length == handshake.env.io1.len

\* The handshake went to the port and round 1 gave a payload.
Round1Received ==
    /\ Authenticated
    /\ ~selftest
    /\ Len(attempts) >= 1
    /\ attempts[1].rc = SSCP_SUCCESS

\* C40: SSCP_Authenticate does not return SSCP_SUCCESS when the round-1
\* payload the codec returned is not exactly 72 bytes long.
C40_Round1Exactly72 ==
    (Round1Received /\ lastRc = SSCP_SUCCESS) => Round1Length = 72

\* A round-1 payload of 80 bytes, the first 72 of them a valid response,
\* opened a session.
C40_Witness ==
    /\ Round1Received
    /\ Round1Length = 80
    /\ lastRc = SSCP_SUCCESS
    /\ counter = DW(0, 1)
    /\ sessionKeys = SSCP_ComputeSessionKeys(handshake.env.K, handshake.rndA,
                                             handshake.rndB)

\* A round-1 payload of 71 bytes whose HMAC ends in 00 opened a session.
C40_OneShort ==
    Round1Received /\ Round1Length = 71 /\ lastRc = SSCP_SUCCESS

\* SSCP_Authenticate failed on the random generator, on the port or the
\* frame of round 1 or of round 2, or on hB: not on SSCP_HMAC and not on
\* SSCP_ComputeSessionKeys.
FailedOnPeerOrRandom ==
    /\ Authenticated
    /\ lastRc # SSCP_SUCCESS
    /\ handshake.env.hm1
    /\ handshake.env.hm2
    /\ \/ lastRc # SSCP_ERR_INTERNAL_FAILURE
       \/ (~selftest /\ ~handshake.env.rng)

\* C36: when SSCP_Authenticate fails on the random generator, on round 1
\* or round 2 of the port, or on hB, ctx->counter, the statistics and the
\* four session keys are what they were before the call.
C36_FailureKeepsSession ==
    FailedOnPeerOrRandom =>
        /\ counter = handshake.before.counter
        /\ stats = handshake.before.stats
        /\ sessionKeys = handshake.before.sessionKeys

\* A second handshake failed in round 2, after hB was verified, on a
\* session that had exchanged: its keys and its counter are in place.
C36_Witness ==
    /\ FailedOnPeerOrRandom
    /\ Len(attempts) = 2
    /\ attempts[2].rc # SSCP_SUCCESS
    /\ stats.sessionCount = 1
    /\ sessionKeys # ZeroKeys
    /\ counter # DW(0, 1)
    /\ counter = handshake.before.counter
    /\ sessionKeys = handshake.before.sessionKeys

\* SSCP_TransceiveNFC got its block from calloc and marshalled the
\* command into it.
Marshalled == wrapped.name = "TransceiveNFC" /\ wrapped.heap # "null"

\* C37: the block SSCP_TransceiveNFC allocates for the marshalled command
\* holds at least the 1 + commandApduSz bytes written into it and passed
\* to SSCP_Exchange, for every commandApduSz, 0 included.
C37_WritesInsideBlock ==
    Marshalled =>
        /\ wrapped.allocated >= wrapped.written
        /\ wrapped.allocated >= 1 + wrapped.commandApduSz

\* With commandApduSz = 0 the reserved byte was written to a block of no
\* bytes, and one byte was given to SSCP_Exchange.
C37_Witness ==
    /\ Marshalled
    /\ wrapped.commandApduSz = 0
    /\ wrapped.allocated = 0
    /\ wrapped.written = 1
    /\ call.dataSz = 1

\* A 5-byte APDU was written as 6 bytes to a block of 5.
C37_OnePast ==
    /\ Marshalled
    /\ wrapped.commandApduSz = 5
    /\ wrapped.written = wrapped.allocated + 1

\* What is written is always one byte more than the block.
C37_AlwaysOnePast == Marshalled => wrapped.written = wrapped.allocated + 1

\* SSCP_ExchangeEx returned at the test of t against maxResponseDataSz.
Overflowed ==
    /\ Returned
    /\ lastRc = SSCP_ERR_OUTPUT_BUFFER_OVERFLOW
    /\ Reached("size")

\* The counter field of the response in hand, as a DWORD.
ResponseCounter == ParseCounter(response.ctr)

\* C38: when SSCP_Exchange returns OUTPUT_BUFFER_OVERFLOW nothing was
\* copied to the caller's buffer, *actResponseDataSz, when given, holds T,
\* and ctx->counter is above the counter of the response.
C38_OverflowLeaves ==
    Overflowed =>
        /\ out.copied = 0
        /\ (call.hasBuf => out.actSz = response.T)
        /\ DWGt(counter, ResponseCounter)

\* Seven bytes for a buffer of four, counter FFFFFFFF: T is stored,
\* nothing is copied, and ctx->counter is 0.
C38_Witness ==
    /\ Overflowed
    /\ call.hasBuf
    /\ call.maxSz = 4
    /\ response.T = 7
    /\ out.actSz = 7
    /\ out.copied = 0
    /\ ResponseCounter = DW(65535, 65535)
    /\ counter = DW(0, 0)

\* The outputs are as claimed on every overflow, and the counter is the
\* response counter plus one on 32 bits: above it unless it was FFFFFFFF.
C38_HoldsBelowWrap ==
    Overflowed =>
        /\ out.copied = 0
        /\ (call.hasBuf => out.actSz = response.T)
        /\ (~call.hasBuf => out.actSz = -1)
        /\ counter = DWInc(ResponseCounter)
        /\ (ResponseCounter # DW(65535, 65535) => DWGt(counter, ResponseCounter))

\* Seven bytes for a buffer of four, counter 2 on a context at 1.
C38_Advanced ==
    /\ Overflowed
    /\ call.hasBuf
    /\ out.actSz = 7
    /\ preCounter = DW(0, 1)
    /\ ResponseCounter = DW(0, 2)
    /\ counter = DW(0, 3)

\* SSCP_ExchangeRaw returned at one of the two tests of the header.
RefusedOnHeader ==
    /\ raw.called
    /\ raw.rc \in {SSCP_ERR_RESPONSE_TOO_LONG, SSCP_ERR_WRONG_RESPONSE_COMMAND}

\* C39: when SSCP_ExchangeRaw returns RESPONSE_TOO_LONG or
\* WRONG_RESPONSE_COMMAND it has read the 5 header bytes and no more: its
\* one SSCP_SerialRecv is that of the header, and what the port
\* delivered after these 5 bytes is still in the port.
C39_HeaderOnlyConsumed ==
    RefusedOnHeader =>
        /\ Len(raw.ports) = 5
        /\ raw.ports[5] = PortCall("Recv", "header", SSCP_SUCCESS)
        /\ \A i \in 1..4 : raw.ports[i].fn # "Recv"
        /\ Len(raw.rx) >= 5
        /\ raw.unread = SubSeq(raw.rx, 6, Len(raw.rx))

\* A 3-byte payload declared to a buffer of 2: RESPONSE_TOO_LONG, and the
\* payload and the CRC, 5 bytes, stay in the port.
C39_Witness ==
    /\ RefusedOnHeader
    /\ raw.rc = SSCP_ERR_RESPONSE_TOO_LONG
    /\ raw.maxResponseSz = 2
    /\ raw.io.len = 3
    /\ Len(raw.rx) = 10
    /\ Len(raw.unread) = 5

\* A frame whose first byte is not 02: WRONG_RESPONSE_COMMAND, and what
\* follows its header stays in the port.
C39_BadStart ==
    /\ RefusedOnHeader
    /\ raw.rc = SSCP_ERR_WRONG_RESPONSE_COMMAND
    /\ raw.rx[1] # 2
    /\ Len(raw.unread) > 0
    /\ raw.unread = SubSeq(raw.rx, 6, Len(raw.rx))

\* A call that succeeds leaves nothing of the frame in the port.
C39_WholeFrameRead ==
    (raw.called /\ raw.rc = SSCP_SUCCESS) =>
        (Len(raw.ports) = 8 /\ Len(raw.unread) = Len(raw.rx) - (7 + raw.io.len))

\* SSCP_ExchangeEx returned after it had allocated its two blocks.
BlocksReleased == Returned /\ blocks.state = "freed"

\* C35: when SSCP_Exchange returns, with success or with any error, the
\* blocks that held the command and the response hold zeros when they
\* are released.
C35_BlocksZeroized ==
    BlocksReleased => (blocks.command = "zeros" /\ blocks.response = "zeros")

\* A successful exchange released the response deciphered and the
\* command as it was sent.
C35_Witness ==
    /\ BlocksReleased
    /\ lastRc = SSCP_SUCCESS
    /\ blocks.command = "ciphertext"
    /\ blocks.response = "plaintext"

\* A failure while the command is built released the command in clear.
C35_ClearCommandLeft ==
    /\ BlocksReleased
    /\ lastRc = SSCP_ERR_INTERNAL_FAILURE
    /\ attempts = <<>>
    /\ blocks.command = "plaintext"

\* No return leaves a block in use, and none clears the command block.
C35_NeverCleared ==
    Returned => (blocks.state # "live" /\ (blocks.state = "freed" => blocks.command # "zeros"))

====
